---------------------------- MODULE Spec2Model ----------------------------
(***************************************************************************)
(* A model of the clock-speed adjustment core of                           *)
(* satisfactory-blueprint-clockspeed (clock-speed.ts): the machine         *)
(* registry, the clock-speed accessors, the batch-text parser and the      *)
(* apply loop of adjustBlueprintClockSpeeds.                               *)
(*                                                                         *)
(* Strings are sequences of symbols.  A symbol is one character, except    *)
(* for a few character runs that no operation of the program ever splits:  *)
(* the namespace prefixes "/Game/" and "/Script/", the remainder of a type *)
(* path after its prefix, and the word "Infinity".  Numbers are exact      *)
(* decimals [m |-> mantissa, e |-> exponent of ten], normalised.           *)
(***************************************************************************)
EXTENDS Integers, Sequences, FiniteSets, TLC

VARIABLES
    pc,             \* position inside adjustBlueprintClockSpeeds
    objects,        \* blueprint.objects, the entity collection (mutated in place)
    parsedObjects,  \* blueprint.objects as Parser.ParseBlueprintFiles returned it
    specs,          \* the specs argument
    machines,       \* const machines: MachineInfo[]
    adjustments,    \* const adjustments
    objIdx,         \* i of the inventory loop
    specIdx,        \* position of the for-of loop over specs
    machineIdx,     \* position of the for-of loop over machines
    matchedCount,   \* let matchedCount
    targetTypePath, \* const targetTypePath
    thrown,         \* the message of the Error thrown, or NoError
    text,           \* the spec argument of parseClockSpeedSpec
    parsed,         \* what parseClockSpeedSpec(text) returned or threw
    query,          \* the machineName argument of resolveTypePath
    resolved,       \* what resolveTypePath(query) returned
    machineEntity,  \* the entity argument of the clock-speed accessors
    lastCall,       \* the last accessor call: its entity before, and its result
    waitForConsumerLock, \* the fields of the SimpleWaitForConsumerLock
    executed,       \* the functions the lock has executed, in order
    calls,          \* the lock() and unlock() calls made so far, in order
    producer,       \* position of the producer inside write
    enqueued,       \* the values handed to controller.enqueue, in order
    clockSpeedValue, \* the value argument of formatClockSpeed
    formatted,      \* what formatClockSpeed(clockSpeedValue) returned
    inputFiles,     \* the input files that exist
    inputsRead,     \* whether main has read the input files
    exitCode,       \* the exit code of the process
    failure,        \* the failure main reported before it exited
    serialized,     \* what Parser.WriteBlueprintFiles handed to writeBlueprintFiles
    outputFiles,    \* the content of the output files
    reread          \* what decoding the output files returned

engineVars == <<pc, objects, parsedObjects, specs, machines, adjustments, objIdx,
                specIdx, machineIdx, matchedCount, targetTypePath, thrown>>

parserVars == <<text, parsed>>

registryVars == <<query, resolved>>

accessorVars == <<machineEntity, lastCall>>

streamVars == <<waitForConsumerLock, executed, calls, producer, enqueued>>

formatVars == <<clockSpeedValue, formatted>>

shellVars == <<inputFiles, inputsRead, exitCode, failure, serialized, outputFiles, reread>>

\* what adjustBlueprintClockSpeeds neither reads nor writes
otherVars == <<registryVars, accessorVars, streamVars, formatVars, shellVars>>

vars == <<engineVars, parserVars, otherVars>>

-----------------------------------------------------------------------------
(* Bounds of the model *)

MaxObjects == 3
MaxSpecs == 2

-----------------------------------------------------------------------------
(* Strings *)

\* String.prototype.toLowerCase on one symbol
LowerTable ==
    ("A" :> "a") @@ ("B" :> "b") @@ ("C" :> "c") @@ ("D" :> "d") @@ ("E" :> "e") @@ ("F" :> "f") @@
    ("G" :> "g") @@ ("H" :> "h") @@ ("I" :> "i") @@ ("J" :> "j") @@ ("K" :> "k") @@ ("L" :> "l") @@
    ("M" :> "m") @@ ("N" :> "n") @@ ("O" :> "o") @@ ("P" :> "p") @@ ("Q" :> "q") @@ ("R" :> "r") @@
    ("S" :> "s") @@ ("T" :> "t") @@ ("U" :> "u") @@ ("V" :> "v") @@ ("W" :> "w") @@ ("X" :> "x") @@
    ("Y" :> "y") @@ ("Z" :> "z") @@
    ("/Game/" :> "/game/") @@ ("/Script/" :> "/script/") @@
    ("Infinity" :> "infinity") @@
    ("FactoryGame/Buildable/Factory/ConstructorMk1/Build_ConstructorMk1.Build_ConstructorMk1_C"
       :> "factorygame/buildable/factory/constructormk1/build_constructormk1.build_constructormk1_c") @@
    ("FactoryGame/Buildable/Factory/AssemblerMk1/Build_AssemblerMk1.Build_AssemblerMk1_C"
       :> "factorygame/buildable/factory/assemblermk1/build_assemblermk1.build_assemblermk1_c") @@
    ("FactoryGame/Buildable/Factory/ManufacturerMk1/Build_ManufacturerMk1.Build_ManufacturerMk1_C"
       :> "factorygame/buildable/factory/manufacturermk1/build_manufacturermk1.build_manufacturermk1_c") @@
    ("FactoryGame/Buildable/Factory/OilRefinery/Build_OilRefinery.Build_OilRefinery_C"
       :> "factorygame/buildable/factory/oilrefinery/build_oilrefinery.build_oilrefinery_c") @@
    ("FactoryGame/Buildable/Factory/Packager/Build_Packager.Build_Packager_C"
       :> "factorygame/buildable/factory/packager/build_packager.build_packager_c") @@
    ("FactoryGame/Buildable/Factory/SmelterMk1/Build_SmelterMk1.Build_SmelterMk1_C"
       :> "factorygame/buildable/factory/smeltermk1/build_smeltermk1.build_smeltermk1_c") @@
    ("FactoryGame/Buildable/Factory/FoundryMk1/Build_FoundryMk1.Build_FoundryMk1_C"
       :> "factorygame/buildable/factory/foundrymk1/build_foundrymk1.build_foundrymk1_c") @@
    ("FactoryGame/Buildable/Factory/Blender/Build_Blender.Build_Blender_C"
       :> "factorygame/buildable/factory/blender/build_blender.build_blender_c") @@
    ("FactoryGame/Buildable/Factory/HadronCollider/Build_HadronCollider.Build_HadronCollider_C"
       :> "factorygame/buildable/factory/hadroncollider/build_hadroncollider.build_hadroncollider_c") @@
    ("FactoryGame/Buildable/Factory/QuantumEncoder/Build_QuantumEncoder.Build_QuantumEncoder_C"
       :> "factorygame/buildable/factory/quantumencoder/build_quantumencoder.build_quantumencoder_c") @@
    ("FactoryGame/Buildable/Factory/Converter/Build_Converter.Build_Converter_C"
       :> "factorygame/buildable/factory/converter/build_converter.build_converter_c") @@
    ("FactoryGame/Buildable/Factory/StorageContainerMk1/Build_StorageContainerMk1.Build_StorageContainerMk1_C"
       :> "factorygame/buildable/factory/storagecontainermk1/build_storagecontainermk1.build_storagecontainermk1_c")

toLowerCaseSym(c) == IF c \in DOMAIN LowerTable THEN LowerTable[c] ELSE c

\* toLowerCase that leaves the case of every letter
toLowerCaseKeepsCase(s) == s

\* String.prototype.toLowerCase
toLowerCase(s) == [k \in 1..Len(s) |-> toLowerCaseSym(s[k])]

\* String.prototype.startsWith for a prefix that is one symbol of the model
startsWith(s, prefix) == Len(s) >= 1 /\ s[1] = prefix

-----------------------------------------------------------------------------
(* Numbers: exact decimals m * 10^e, with m not divisible by 10 unless 0,  *)
(* and the values NaN, Infinity and -Infinity.  A decimal text of a few     *)
(* digits and the double parseFloat rounds it to determine each other, and  *)
(* the sign of the double is the sign of the decimal.                       *)

RECURSIVE Normalise(_, _)
Normalise(m, e) ==
    IF m = 0 THEN [kind |-> "finite", m |-> 0, e |-> 0]
    ELSE IF m % 10 = 0 THEN Normalise(m \div 10, e + 1)
    ELSE [kind |-> "finite", m |-> m, e |-> e]

Num(m, e) == Normalise(m, e)

NaN == [kind |-> "NaN", m |-> 0, e |-> 0]
Infinity == [kind |-> "Infinity", m |-> 1, e |-> 0]
NegInfinity == [kind |-> "-Infinity", m |-> -1, e |-> 0]

isNaN(v) == v.kind = "NaN"

\* v < 0
LessThanZero(v) == v.kind # "NaN" /\ v.m < 0

\* v <= 0
LessOrEqualZero(v) == v.kind # "NaN" /\ v.m <= 0

-----------------------------------------------------------------------------
(* JavaScript values that resolveTypePath can produce *)

StringValue(s) == [kind |-> "string", str |-> s]
NullValue == [kind |-> "null", str |-> <<>>]
\* Object.prototype, which every object literal inherits from
ObjectPrototype == [kind |-> "object", str |-> <<>>]

\* resolveTypePath has not been called
NotResolved == [kind |-> "pending", str |-> <<>>]

\* ToBoolean
Truthy(v) == \/ v.kind = "object"
             \/ v.kind = "string" /\ v.str # <<>>

-----------------------------------------------------------------------------
(* MachineRegistry *)

MACHINE_TYPE_PATHS ==
    (<<"c", "o", "n", "s", "t", "r", "u", "c", "t", "o", "r">>
       :> <<"/Game/", "FactoryGame/Buildable/Factory/ConstructorMk1/Build_ConstructorMk1.Build_ConstructorMk1_C">>) @@
    (<<"a", "s", "s", "e", "m", "b", "l", "e", "r">>
       :> <<"/Game/", "FactoryGame/Buildable/Factory/AssemblerMk1/Build_AssemblerMk1.Build_AssemblerMk1_C">>) @@
    (<<"m", "a", "n", "u", "f", "a", "c", "t", "u", "r", "e", "r">>
       :> <<"/Game/", "FactoryGame/Buildable/Factory/ManufacturerMk1/Build_ManufacturerMk1.Build_ManufacturerMk1_C">>) @@
    (<<"r", "e", "f", "i", "n", "e", "r", "y">>
       :> <<"/Game/", "FactoryGame/Buildable/Factory/OilRefinery/Build_OilRefinery.Build_OilRefinery_C">>) @@
    (<<"p", "a", "c", "k", "a", "g", "e", "r">>
       :> <<"/Game/", "FactoryGame/Buildable/Factory/Packager/Build_Packager.Build_Packager_C">>) @@
    (<<"s", "m", "e", "l", "t", "e", "r">>
       :> <<"/Game/", "FactoryGame/Buildable/Factory/SmelterMk1/Build_SmelterMk1.Build_SmelterMk1_C">>) @@
    (<<"f", "o", "u", "n", "d", "r", "y">>
       :> <<"/Game/", "FactoryGame/Buildable/Factory/FoundryMk1/Build_FoundryMk1.Build_FoundryMk1_C">>) @@
    (<<"b", "l", "e", "n", "d", "e", "r">>
       :> <<"/Game/", "FactoryGame/Buildable/Factory/Blender/Build_Blender.Build_Blender_C">>) @@
    (<<"p", "a", "r", "t", "i", "c", "l", "e", "a", "c", "c", "e", "l", "e", "r", "a", "t", "o", "r">>
       :> <<"/Game/", "FactoryGame/Buildable/Factory/HadronCollider/Build_HadronCollider.Build_HadronCollider_C">>) @@
    (<<"q", "u", "a", "n", "t", "u", "m", "e", "n", "c", "o", "d", "e", "r">>
       :> <<"/Game/", "FactoryGame/Buildable/Factory/QuantumEncoder/Build_QuantumEncoder.Build_QuantumEncoder_C">>) @@
    (<<"c", "o", "n", "v", "e", "r", "t", "e", "r">>
       :> <<"/Game/", "FactoryGame/Buildable/Factory/Converter/Build_Converter.Build_Converter_C">>)

\* PropertyLookup on a table that lacks the entry of the converter
PropertyLookupWithoutConverter(key) ==
    IF key = <<"c", "o", "n", "v", "e", "r", "t", "e", "r">> THEN NullValue
    ELSE IF key \in DOMAIN MACHINE_TYPE_PATHS THEN StringValue(MACHINE_TYPE_PATHS[key])
    ELSE IF key = <<"_", "_", "p", "r", "o", "t", "o", "_", "_">> THEN ObjectPrototype
    ELSE NullValue

\* MACHINE_TYPE_PATHS[key]: an own property, or one inherited from
\* Object.prototype.  "__proto__" is the only inherited property whose name
\* is its own lower-case form and that the table does not shadow.
PropertyLookup(key) ==
    IF key \in DOMAIN MACHINE_TYPE_PATHS THEN StringValue(MACHINE_TYPE_PATHS[key])
    ELSE IF key = <<"_", "_", "p", "r", "o", "t", "o", "_", "_">> THEN ObjectPrototype
    ELSE NullValue

\* getMachineName comparing type paths without regard to letter case
getMachineNameIgnoringCase(typePath) ==
    IF \E name \in DOMAIN MACHINE_TYPE_PATHS :
          toLowerCase(typePath) = toLowerCase(MACHINE_TYPE_PATHS[name])
    THEN StringValue(CHOOSE name \in DOMAIN MACHINE_TYPE_PATHS :
                        toLowerCase(typePath) = toLowerCase(MACHINE_TYPE_PATHS[name]))
    ELSE NullValue

getMachineName(typePath) ==
    IF \E name \in DOMAIN MACHINE_TYPE_PATHS : typePath = MACHINE_TYPE_PATHS[name]
    THEN StringValue(CHOOSE name \in DOMAIN MACHINE_TYPE_PATHS :
                        typePath = MACHINE_TYPE_PATHS[name])
    ELSE NullValue

\* resolveTypePath looking the name up as it was given
resolveTypePathCaseSensitive(machineName) ==
    IF Truthy(PropertyLookup(machineName)) THEN PropertyLookup(machineName)
    ELSE IF startsWith(machineName, "/Game/") \/ startsWith(machineName, "/Script/")
    THEN StringValue(machineName)
    ELSE NullValue

\* resolveTypePath returning the lower-cased text of a raw type path
resolveTypePathLowersRawPath(machineName) ==
    LET lower == toLowerCase(machineName) IN
    IF Truthy(PropertyLookup(lower)) THEN PropertyLookup(lower)
    ELSE IF startsWith(machineName, "/Game/") \/ startsWith(machineName, "/Script/")
    THEN StringValue(lower)
    ELSE NullValue

resolveTypePath(machineName) ==
    LET lower == toLowerCase(machineName) IN
    IF Truthy(PropertyLookup(lower)) THEN PropertyLookup(lower)
    ELSE IF startsWith(machineName, "/Game/") \/ startsWith(machineName, "/Script/")
    THEN StringValue(machineName)
    ELSE NullValue

-----------------------------------------------------------------------------
(* String operations of parseClockSpeedSpec.  Indices are those of the     *)
(* program: the first symbol of a string has index 0.                      *)

\* WhiteSpace and LineTerminator, which trim and parseFloat strip
WhiteSpace == {" ", "\t", "\n", "\r"}

Digits == {"0", "1", "2", "3", "4", "5", "6", "7", "8", "9"}

DigitValue ==
    ("0" :> 0) @@ ("1" :> 1) @@ ("2" :> 2) @@ ("3" :> 3) @@ ("4" :> 4) @@
    ("5" :> 5) @@ ("6" :> 6) @@ ("7" :> 7) @@ ("8" :> 8) @@ ("9" :> 9)

\* String.prototype.indexOf, or -1
indexOf(s, c) ==
    IF \E i \in 1..Len(s) : s[i] = c
    THEN (CHOOSE i \in 1..Len(s) : s[i] = c /\ \A j \in 1..(i-1) : s[j] # c) - 1
    ELSE -1

\* lastIndexOf searching from the start
lastIndexOfFromStart(s, c) == indexOf(s, c)

\* String.prototype.lastIndexOf, or -1
lastIndexOf(s, c) ==
    IF \E i \in 1..Len(s) : s[i] = c
    THEN (CHOOSE i \in 1..Len(s) : s[i] = c /\ \A j \in (i+1)..Len(s) : s[j] # c) - 1
    ELSE -1

\* String.prototype.substring(start, end) and substring(start)
substring(s, start, end) == SubSeq(s, start + 1, end)
substringFrom(s, start) == SubSeq(s, start + 1, Len(s))

\* String.prototype.split for a separator of one symbol
RECURSIVE split(_, _)
split(s, separator) ==
    LET at == indexOf(s, separator) IN
    IF at = -1 THEN <<s>>
    ELSE <<substring(s, 0, at)>> \o split(substringFrom(s, at + 1), separator)

RECURSIVE trimStart(_)
trimStart(s) ==
    IF s # <<>> /\ s[1] \in WhiteSpace THEN trimStart(Tail(s)) ELSE s

RECURSIVE trimEnd(_)
trimEnd(s) ==
    IF s # <<>> /\ s[Len(s)] \in WhiteSpace THEN trimEnd(SubSeq(s, 1, Len(s) - 1)) ELSE s

\* trim that strips nothing
trimNothing(s) == s

\* String.prototype.trim
trim(s) == trimEnd(trimStart(s))

\* the number of digits s begins with
RECURSIVE DigitRun(_)
DigitRun(s) ==
    IF s # <<>> /\ s[1] \in Digits THEN 1 + DigitRun(Tail(s)) ELSE 0

\* the value of a string of digits after the digits read so far
RECURSIVE DigitsValue(_, _)
DigitsValue(s, acc) ==
    IF s = <<>> THEN acc ELSE DigitsValue(Tail(s), 10 * acc + DigitValue[s[1]])

\* parseFloat: the value of the longest prefix of the string, leading white
\* space stripped, that is a StrDecimalLiteral; NaN when there is none.  The
\* texts of the model are too short to leave the range of the doubles.
parseFloat(str) ==
    LET trimmed == trimStart(str)
        signed == trimmed # <<>> /\ trimmed[1] \in {"+", "-"}
        sign == IF signed /\ trimmed[1] = "-" THEN -1 ELSE 1
        body == IF signed THEN Tail(trimmed) ELSE trimmed
        intLen == DigitRun(body)
        afterInt == substringFrom(body, intLen)
        hasDot == afterInt # <<>> /\ afterInt[1] = "."
        fracLen == IF hasDot THEN DigitRun(Tail(afterInt)) ELSE 0
        afterFrac == IF hasDot THEN substringFrom(afterInt, 1 + fracLen) ELSE afterInt
        mantissa == DigitsValue(substring(body, 0, intLen) \o
                                substring(afterInt, 1, 1 + fracLen), 0)
        hasE == afterFrac # <<>> /\ afterFrac[1] \in {"e", "E"}
        afterE == IF hasE THEN Tail(afterFrac) ELSE <<>>
        expSigned == afterE # <<>> /\ afterE[1] \in {"+", "-"}
        expSign == IF expSigned /\ afterE[1] = "-" THEN -1 ELSE 1
        expBody == IF expSigned THEN Tail(afterE) ELSE afterE
        expLen == DigitRun(expBody)
        exponent == IF expLen > 0
                    THEN expSign * DigitsValue(substring(expBody, 0, expLen), 0)
                    ELSE 0
    IN IF body # <<>> /\ body[1] = "Infinity"
       THEN (IF sign = -1 THEN NegInfinity ELSE Infinity)
       ELSE IF intLen = 0 /\ fracLen = 0 THEN NaN
       ELSE Num(sign * mantissa, exponent - fracLen)

-----------------------------------------------------------------------------
(* SpecParser *)

NotParsed == [status |-> "pending", specs |-> <<>>, error |-> [message |-> "none"]]

\* return results
Returned(results) == [status |-> "returned", specs |-> results, error |-> [message |-> "none"]]

\* throw new Error(...): no list is returned
Thrown(error) == [status |-> "thrown", specs |-> <<>>, error |-> error]

\* the iterations of the loop of lines 114-136 from pair k on, then lines 138-142
RECURSIVE ParsePairs(_, _, _)
ParsePairs(pairs, k, results) ==
    IF k > Len(pairs)
    THEN IF Len(results) = 0
         THEN Thrown([message |-> "No valid clock speed specifications provided"])
         ELSE Returned(results)
    ELSE
      LET trimmed == trim(pairs[k]) IN
      IF trimmed = <<>> THEN ParsePairs(pairs, k + 1, results)
      ELSE
        LET colonIndex == lastIndexOf(trimmed, ":") IN
        IF colonIndex = -1
        THEN Thrown([message |-> "expected format", spec |-> trimmed])
        ELSE
          LET machineName == trim(substring(trimmed, 0, colonIndex))
              clockSpeedStr == trim(substringFrom(trimmed, colonIndex + 1))
              clockSpeed == parseFloat(clockSpeedStr)
          IN IF machineName = <<>>
             THEN Thrown([message |-> "missing machine name", spec |-> trimmed])
             ELSE IF isNaN(clockSpeed) \/ LessOrEqualZero(clockSpeed)
             THEN Thrown([message |-> "must be a positive number",
                          clockSpeedStr |-> clockSpeedStr, machineName |-> machineName])
             ELSE ParsePairs(pairs, k + 1,
                             Append(results, [machineName |-> toLowerCase(machineName),
                                              clockSpeed |-> clockSpeed]))

parseClockSpeedSpec(spec) == ParsePairs(split(spec, ","), 1, <<>>)

-----------------------------------------------------------------------------
(* ClockSpeedAccessor.  An entity is [typePath, instanceName, properties]; *)
(* properties is a function from the names present to tagged values.       *)

DefaultClockSpeed == Num(1, 0)

\* getFloatPropertyValue without the test of the property's kind
getFloatPropertyValueOfAnyKind(entity, propertyName, defaultValue) ==
    IF propertyName \in DOMAIN entity.properties
    THEN entity.properties[propertyName].value
    ELSE defaultValue

getFloatPropertyValue(entity, propertyName, defaultValue) ==
    IF /\ propertyName \in DOMAIN entity.properties
       /\ entity.properties[propertyName].type = "FloatProperty"
    THEN entity.properties[propertyName].value
    ELSE defaultValue

getClockSpeed(entity) ==
    getFloatPropertyValue(entity, "mCurrentPotential", DefaultClockSpeed)

getPendingClockSpeed(entity) ==
    getFloatPropertyValue(entity, "mPendingPotential", DefaultClockSpeed)

createFloatProperty(name, value) ==
    [type |-> "FloatProperty", ueType |-> "FloatProperty", name |-> name, value |-> value]

\* entity.properties[name] = prop
AssignProperty(properties, name, prop) == (name :> prop) @@ properties

\* setClockSpeed without its second assignment
setClockSpeedCurrentOnly(entity, clockSpeed) ==
    [entity EXCEPT !.properties =
        AssignProperty(@, "mCurrentPotential",
                       createFloatProperty("mCurrentPotential", clockSpeed))]

\* setClockSpeed assigning a fresh property object instead of two of its keys
setClockSpeedReplacingProperties(entity, clockSpeed) ==
    [entity EXCEPT !.properties =
        ("mCurrentPotential" :> createFloatProperty("mCurrentPotential", clockSpeed)) @@
        ("mPendingPotential" :> createFloatProperty("mPendingPotential", clockSpeed))]

setClockSpeed(entity, clockSpeed) ==
    [entity EXCEPT !.properties =
        AssignProperty(
            AssignProperty(@, "mCurrentPotential",
                           createFloatProperty("mCurrentPotential", clockSpeed)),
            "mPendingPotential",
            createFloatProperty("mPendingPotential", clockSpeed))]

\* no entity is at hand, and no accessor has been called
NoEntity == [typePath |-> <<>>, instanceName |-> 0, properties |-> <<>>]
NoCall == [op |-> "none", before |-> NoEntity, result |-> DefaultClockSpeed]

\* executionFn is undefined; a function is known by the number of the lock()
\* call that passed it
Undefined == 0

\* the field initialisers of SimpleWaitForConsumerLock
NewLock ==
    [locked |-> FALSE, unlockWasCalledInTheMeantime |-> FALSE, executionFn |-> Undefined]

\* no stream has been created
StreamIdle ==
    /\ waitForConsumerLock = NewLock
    /\ executed = <<>>
    /\ calls = <<>>
    /\ producer = "idle"
    /\ enqueued = <<>>

\* formatClockSpeed has not been called; it returns no empty text
NotFormatted == <<>>

FormatIdle ==
    /\ clockSpeedValue = DefaultClockSpeed
    /\ formatted = NotFormatted

\* the files of main: the two inputs and the two outputs
FileNames == {"sbp", "sbpcfg"}
NoFile == [kind |-> "none", blocks |-> <<>>]
NotSerialized == [mainFileHeader |-> <<>>, mainFileBodyChunks |-> <<>>, configFileBinary |-> <<>>]
NotReread == [status |-> "pending", objects |-> <<>>]

\* main is not running
ShellIdle ==
    /\ inputFiles = {}
    /\ inputsRead = FALSE
    /\ exitCode = 0
    /\ failure = "none"
    /\ serialized = NotSerialized
    /\ outputFiles = [f \in FileNames |-> NoFile]
    /\ reread = NotReread

-----------------------------------------------------------------------------
(* Inputs of adjustBlueprintClockSpeeds *)

RefineryPath == MACHINE_TYPE_PATHS[<<"r", "e", "f", "i", "n", "e", "r", "y">>]
ManufacturerPath ==
    MACHINE_TYPE_PATHS[<<"m", "a", "n", "u", "f", "a", "c", "t", "u", "r", "e", "r">>]
\* a type path under /Game/ that differs from the refinery's only in letter case
RefineryPathOtherCase == <<"/Game/", toLowerCaseSym(RefineryPath[2])>>
OtherProperty ==
    [type |-> "BoolProperty", ueType |-> "BoolProperty", name |-> "mIsProducing", value |-> Num(1, 0)]

\* the property sets an entity of a decoded blueprint may carry
NoClockProperties == ("mIsProducing" :> OtherProperty)
FloatClockProperties ==
    ("mCurrentPotential" :> createFloatProperty("mCurrentPotential", Num(5, -1))) @@
    ("mPendingPotential" :> createFloatProperty("mPendingPotential", Num(5, -1)))
MixedClockProperties ==
    ("mCurrentPotential" :>
        [type |-> "IntProperty", ueType |-> "IntProperty",
         name |-> "mCurrentPotential", value |-> Num(7, 0)]) @@
    ("mPendingPotential" :> createFloatProperty("mPendingPotential", Num(25, -1))) @@
    ("mIsProducing" :> OtherProperty)

EntityKinds ==
    { [typePath |-> RefineryPath, properties |-> NoClockProperties],
      [typePath |-> ManufacturerPath, properties |-> FloatClockProperties],
      [typePath |-> ManufacturerPath, properties |-> MixedClockProperties],
      [typePath |-> RefineryPathOtherCase, properties |-> MixedClockProperties] }

\* the entity collections Parser.ParseBlueprintFiles may return; the instance
\* name of an entity is unique in its blueprint
Blueprints ==
    UNION { { [k \in 1..n |-> [typePath |-> kinds[k].typePath,
                               instanceName |-> k,
                               properties |-> kinds[k].properties]] :
              kinds \in [1..n -> EntityKinds] } : n \in 0..MaxObjects }

SpecKinds ==
    { [machineName |-> <<"r", "e", "f", "i", "n", "e", "r", "y">>, clockSpeed |-> Num(2, 0)],
      [machineName |-> <<"R", "e", "f", "i", "n", "e", "r", "y">>, clockSpeed |-> Num(366, -2)],
      [machineName |-> <<"m", "a", "n", "u", "f", "a", "c", "t", "u", "r", "e", "r">>,
       clockSpeed |-> Num(366, -2)],
      [machineName |-> RefineryPathOtherCase, clockSpeed |-> Num(2, 0)],
      [machineName |-> <<"u", "n", "k", "n", "o", "w", "n">>, clockSpeed |-> Num(2, 0)],
      [machineName |-> <<"_", "_", "p", "r", "o", "t", "o", "_", "_">>,
       clockSpeed |-> Num(10, 0)] }

SpecLists == UNION { [1..n -> SpecKinds] : n \in 0..MaxSpecs }

-----------------------------------------------------------------------------
(* adjustBlueprintClockSpeeds *)

NoError == [message |-> "none", machineName |-> <<>>, knownTypes |-> {}]
UnknownMachineType == "Unknown machine type"

\* the message of the Error of lines 204-207: the name, then the known types
UnknownMachineTypeError(machineName) ==
    [message |-> UnknownMachineType, machineName |-> machineName,
     knownTypes |-> DOMAIN MACHINE_TYPE_PATHS]

\* the state after Parser.ParseBlueprintFiles returned (line 180) and the
\* inventory list was created (line 183)
Init ==
    /\ objects \in Blueprints
    /\ parsedObjects = objects
    /\ specs \in SpecLists
    /\ pc = "inventory"
    /\ machines = <<>>
    /\ adjustments = <<>>
    /\ objIdx = 1
    /\ specIdx = 1
    /\ machineIdx = 1
    /\ matchedCount = 0
    /\ targetTypePath = NullValue
    /\ thrown = NoError
    /\ text = <<>>
    /\ parsed = NotParsed
    /\ query = <<>>
    /\ resolved = NotResolved
    /\ machineEntity = NoEntity
    /\ lastCall = NoCall
    /\ StreamIdle
    /\ FormatIdle
    /\ ShellIdle

\* InventoryStep that puts a new entry in front of the earlier ones
InventoryStepPrepends ==
    /\ pc = "inventory"
    /\ UNCHANGED <<parserVars, otherVars>>
    /\ objIdx <= Len(objects)
    /\ LET obj == objects[objIdx]
           friendlyName == getMachineName(obj.typePath)
       IN machines' =
            IF friendlyName # NullValue
            THEN <<[instanceName |-> obj.instanceName,
                    typePath |-> obj.typePath,
                    friendlyName |-> friendlyName.str,
                    currentClockSpeed |-> getClockSpeed(obj),
                    objectIndex |-> objIdx]>> \o machines
            ELSE machines
    /\ objIdx' = objIdx + 1
    /\ UNCHANGED <<pc, objects, parsedObjects, specs, adjustments, specIdx,
                   machineIdx, matchedCount, targetTypePath, thrown>>

\* one iteration of the loop of lines 184-196
InventoryStep ==
    /\ pc = "inventory"
    /\ UNCHANGED <<parserVars, otherVars>>
    /\ objIdx <= Len(objects)
    /\ LET obj == objects[objIdx]
           friendlyName == getMachineName(obj.typePath)
       IN machines' =
            IF friendlyName # NullValue
            THEN Append(machines,
                        [instanceName |-> obj.instanceName,
                         typePath |-> obj.typePath,
                         friendlyName |-> friendlyName.str,
                         currentClockSpeed |-> getClockSpeed(obj),
                         objectIndex |-> objIdx])
            ELSE machines
    /\ objIdx' = objIdx + 1
    /\ UNCHANGED <<pc, objects, parsedObjects, specs, adjustments, specIdx,
                   machineIdx, matchedCount, targetTypePath, thrown>>

\* the inventory loop ends; line 199
BeginApply ==
    /\ pc = "inventory"
    /\ UNCHANGED <<parserVars, otherVars>>
    /\ objIdx > Len(objects)
    /\ pc' = "apply"
    /\ adjustments' = <<>>
    /\ UNCHANGED <<objects, parsedObjects, specs, machines, objIdx, specIdx,
                   machineIdx, matchedCount, targetTypePath, thrown>>

\* ResolveSpec that skips a spec whose name does not resolve
ResolveSpecSkipsUnknown ==
    /\ pc = "apply"
    /\ UNCHANGED <<parserVars, otherVars>>
    /\ specIdx <= Len(specs)
    /\ LET spec == specs[specIdx]
           target == resolveTypePath(spec.machineName)
       IN /\ targetTypePath' = target
          /\ IF ~Truthy(target)
             THEN /\ specIdx' = specIdx + 1
                  /\ UNCHANGED <<pc, thrown, matchedCount, machineIdx>>
             ELSE /\ pc' = "scan"
                  /\ matchedCount' = 0
                  /\ machineIdx' = 1
                  /\ UNCHANGED <<thrown, specIdx>>
    /\ UNCHANGED <<objects, parsedObjects, specs, machines, adjustments, objIdx>>

\* ResolveSpec that restores the entities before it throws
ResolveSpecRollsBack ==
    /\ pc = "apply"
    /\ UNCHANGED <<parserVars, otherVars>>
    /\ specIdx <= Len(specs)
    /\ LET spec == specs[specIdx]
           target == resolveTypePath(spec.machineName)
       IN /\ targetTypePath' = target
          /\ IF ~Truthy(target)
             THEN /\ pc' = "thrown"
                  /\ thrown' = UnknownMachineTypeError(spec.machineName)
                  /\ objects' = parsedObjects
                  /\ UNCHANGED <<matchedCount, machineIdx>>
             ELSE /\ pc' = "scan"
                  /\ matchedCount' = 0
                  /\ machineIdx' = 1
                  /\ UNCHANGED <<thrown, objects>>
    /\ UNCHANGED <<parsedObjects, specs, machines, adjustments, objIdx, specIdx>>

\* ResolveSpec that carries the count of the spec before on to the next
ResolveSpecKeepsCount ==
    /\ pc = "apply"
    /\ UNCHANGED <<parserVars, otherVars>>
    /\ specIdx <= Len(specs)
    /\ LET spec == specs[specIdx]
           target == resolveTypePath(spec.machineName)
       IN /\ targetTypePath' = target
          /\ IF ~Truthy(target)
             THEN /\ pc' = "thrown"
                  /\ thrown' = UnknownMachineTypeError(spec.machineName)
                  /\ UNCHANGED <<matchedCount, machineIdx>>
             ELSE /\ pc' = "scan"
                  /\ machineIdx' = 1
                  /\ UNCHANGED <<thrown, matchedCount>>
    /\ UNCHANGED <<objects, parsedObjects, specs, machines, adjustments, objIdx, specIdx>>

\* lines 201-210: the next spec is resolved, or the call throws
ResolveSpec ==
    /\ pc = "apply"
    /\ UNCHANGED <<parserVars, otherVars>>
    /\ specIdx <= Len(specs)
    /\ LET spec == specs[specIdx]
           target == resolveTypePath(spec.machineName)
       IN /\ targetTypePath' = target
          /\ IF ~Truthy(target)
             THEN /\ pc' = "thrown"
                  /\ thrown' = UnknownMachineTypeError(spec.machineName)
                  /\ UNCHANGED <<matchedCount, machineIdx>>
             ELSE /\ pc' = "scan"
                  /\ matchedCount' = 0
                  /\ machineIdx' = 1
                  /\ UNCHANGED thrown
    /\ UNCHANGED <<objects, parsedObjects, specs, machines, adjustments, objIdx, specIdx>>

\* ScanStep that leaves the loop at the first match
ScanStepStopsAtFirstMatch ==
    /\ pc = "scan"
    /\ UNCHANGED <<parserVars, otherVars>>
    /\ machineIdx <= Len(machines)
    /\ LET machine == machines[machineIdx]
           spec == specs[specIdx]
       IN IF StringValue(machine.typePath) = targetTypePath
          THEN /\ objects' = [objects EXCEPT ![machine.objectIndex] =
                                 setClockSpeed(@, spec.clockSpeed)]
               /\ machines' = [machines EXCEPT ![machineIdx].currentClockSpeed =
                                 spec.clockSpeed]
               /\ matchedCount' = matchedCount + 1
               /\ machineIdx' = Len(machines) + 1
          ELSE /\ machineIdx' = machineIdx + 1
               /\ UNCHANGED <<objects, machines, matchedCount>>
    /\ UNCHANGED <<pc, parsedObjects, specs, adjustments, objIdx, specIdx,
                   targetTypePath, thrown>>

\* ScanStep without the type-path comparison
ScanStepMatchesEveryMachine ==
    /\ pc = "scan"
    /\ UNCHANGED <<parserVars, otherVars>>
    /\ machineIdx <= Len(machines)
    /\ LET machine == machines[machineIdx]
           spec == specs[specIdx]
       IN /\ objects' = [objects EXCEPT ![machine.objectIndex] =
                            setClockSpeed(@, spec.clockSpeed)]
          /\ machines' = [machines EXCEPT ![machineIdx].currentClockSpeed =
                            spec.clockSpeed]
          /\ matchedCount' = matchedCount + 1
    /\ machineIdx' = machineIdx + 1
    /\ UNCHANGED <<pc, parsedObjects, specs, adjustments, objIdx, specIdx,
                   targetTypePath, thrown>>

\* ScanStep that does not write an entity an earlier spec has written
ScanStepKeepsFirstWrite ==
    /\ pc = "scan"
    /\ UNCHANGED <<parserVars, otherVars>>
    /\ machineIdx <= Len(machines)
    /\ LET machine == machines[machineIdx]
           spec == specs[specIdx]
       IN IF StringValue(machine.typePath) = targetTypePath
          THEN /\ IF objects[machine.objectIndex] = parsedObjects[machine.objectIndex]
                  THEN /\ objects' = [objects EXCEPT ![machine.objectIndex] =
                                         setClockSpeed(@, spec.clockSpeed)]
                       /\ machines' = [machines EXCEPT ![machineIdx].currentClockSpeed =
                                         spec.clockSpeed]
                  ELSE UNCHANGED <<objects, machines>>
               /\ matchedCount' = matchedCount + 1
          ELSE UNCHANGED <<objects, machines, matchedCount>>
    /\ machineIdx' = machineIdx + 1
    /\ UNCHANGED <<pc, parsedObjects, specs, adjustments, objIdx, specIdx,
                   targetTypePath, thrown>>

\* ScanStep that writes the entity and leaves its inventory entry as it was
ScanStepLeavesSnapshot ==
    /\ pc = "scan"
    /\ UNCHANGED <<parserVars, otherVars>>
    /\ machineIdx <= Len(machines)
    /\ LET machine == machines[machineIdx]
           spec == specs[specIdx]
       IN IF StringValue(machine.typePath) = targetTypePath
          THEN /\ objects' = [objects EXCEPT ![machine.objectIndex] =
                                 setClockSpeed(@, spec.clockSpeed)]
               /\ matchedCount' = matchedCount + 1
               /\ UNCHANGED machines
          ELSE UNCHANGED <<objects, machines, matchedCount>>
    /\ machineIdx' = machineIdx + 1
    /\ UNCHANGED <<pc, parsedObjects, specs, adjustments, objIdx, specIdx,
                   targetTypePath, thrown>>

\* one iteration of the loop of lines 211-218
ScanStep ==
    /\ pc = "scan"
    /\ UNCHANGED <<parserVars, otherVars>>
    /\ machineIdx <= Len(machines)
    /\ LET machine == machines[machineIdx]
           spec == specs[specIdx]
       IN IF StringValue(machine.typePath) = targetTypePath
          THEN /\ objects' = [objects EXCEPT ![machine.objectIndex] =
                                 setClockSpeed(@, spec.clockSpeed)]
               /\ machines' = [machines EXCEPT ![machineIdx].currentClockSpeed =
                                 spec.clockSpeed]
               /\ matchedCount' = matchedCount + 1
          ELSE UNCHANGED <<objects, machines, matchedCount>>
    /\ machineIdx' = machineIdx + 1
    /\ UNCHANGED <<pc, parsedObjects, specs, adjustments, objIdx, specIdx,
                   targetTypePath, thrown>>

\* PushAdjustment that reports only the specs that matched a machine
PushAdjustmentSkipsZero ==
    /\ pc = "scan"
    /\ UNCHANGED <<parserVars, otherVars>>
    /\ machineIdx > Len(machines)
    /\ adjustments' =
          IF matchedCount = 0 THEN adjustments
          ELSE Append(adjustments,
                      [machineName |-> specs[specIdx].machineName,
                       matchedCount |-> matchedCount,
                       requestedClockSpeed |-> specs[specIdx].clockSpeed])
    /\ specIdx' = specIdx + 1
    /\ pc' = "apply"
    /\ UNCHANGED <<objects, parsedObjects, specs, machines, objIdx, machineIdx,
                   matchedCount, targetTypePath, thrown>>

\* lines 220-224: the report entry of the spec
PushAdjustment ==
    /\ pc = "scan"
    /\ UNCHANGED <<parserVars, otherVars>>
    /\ machineIdx > Len(machines)
    /\ adjustments' = Append(adjustments,
                             [machineName |-> specs[specIdx].machineName,
                              matchedCount |-> matchedCount,
                              requestedClockSpeed |-> specs[specIdx].clockSpeed])
    /\ specIdx' = specIdx + 1
    /\ pc' = "apply"
    /\ UNCHANGED <<objects, parsedObjects, specs, machines, objIdx, machineIdx,
                   matchedCount, targetTypePath, thrown>>

\* line 227: { blueprint, result: { machines, adjustments } }
Return ==
    /\ pc = "apply"
    /\ UNCHANGED <<parserVars, otherVars>>
    /\ specIdx > Len(specs)
    /\ pc' = "returned"
    /\ UNCHANGED <<objects, parsedObjects, specs, machines, adjustments, objIdx,
                   specIdx, machineIdx, matchedCount, targetTypePath, thrown>>

Next ==
    \/ InventoryStep
    \/ BeginApply
    \/ ResolveSpec
    \/ ScanStep
    \/ PushAdjustment
    \/ Return

Spec == Init /\ [][Next]_vars

TypeOK ==
    /\ pc \in {"inventory", "apply", "scan", "returned", "thrown"}
    /\ Len(objects) = Len(parsedObjects)
    /\ matchedCount \in Nat

-----------------------------------------------------------------------------
(* Vocabulary of the properties of adjustBlueprintClockSpeeds *)

RegisteredTypePaths == { MACHINE_TYPE_PATHS[name] : name \in DOMAIN MACHINE_TYPE_PATHS }

\* the entities the inventory pass tracks: those of a registered type path
Tracked == { i \in 1..Len(parsedObjects) : parsedObjects[i].typePath \in RegisteredTypePaths }

\* what the machine name of spec k resolves to
Resolved(k) == resolveTypePath(specs[k].machineName)

\* the tracked entities whose typePath is, symbol for symbol, the target of spec k
Matches(k) == { i \in Tracked : StringValue(parsedObjects[i].typePath) = Resolved(k) }

\* both clock-speed properties of the entity are float properties holding v
HasClockSpeed(entity, v) ==
    \A name \in {"mCurrentPotential", "mPendingPotential"} :
        /\ name \in DOMAIN entity.properties
        /\ entity.properties[name] = createFloatProperty(name, v)

ClockProperties == {"mCurrentPotential", "mPendingPotential"}

\* the specs whose machine name does not resolve
Unresolved == { k \in 1..Len(specs) : ~Truthy(Resolved(k)) }

FirstUnresolved == CHOOSE k \in Unresolved : \A l \in Unresolved : k <= l

\* C1: on return, each spec's matchedCount is the number of tracked machines
\* whose typePath is exactly its resolved target, and, unless a later spec has
\* the same target, each of those entities holds the spec's clockSpeed in both
\* clock-speed properties.
C1_MatchedCountAndFinalSpeed ==
    pc = "returned" =>
        /\ Len(adjustments) = Len(specs)
        /\ \A k \in 1..Len(specs) :
            /\ adjustments[k].matchedCount = Cardinality(Matches(k))
            /\ (\A l \in (k+1)..Len(specs) : Resolved(l) # Resolved(k)) =>
                  \A i \in Matches(k) : HasClockSpeed(objects[i], specs[k].clockSpeed)

\* one spec matched one machine and the next matched two
C1_Witness ==
    /\ pc = "returned"
    /\ Len(specs) = 2
    /\ adjustments[1].matchedCount = 1
    /\ adjustments[2].matchedCount = 2
    /\ specs[1].clockSpeed # specs[2].clockSpeed

\* C2: every write of the core to an entity leaves mCurrentPotential and
\* mPendingPotential present on it, both float properties holding exactly the
\* clock speed written, whatever the entity held before.
C2_SetClockSpeedWritesBoth ==
    [][\A i \in 1..Len(objects) :
          objects'[i] # objects[i] =>
              /\ pc = "scan"
              /\ HasClockSpeed(objects'[i], specs[specIdx].clockSpeed)
              /\ objects'[i].properties["mCurrentPotential"].value =
                     objects'[i].properties["mPendingPotential"].value]_vars

\* an entity that had no clock-speed property and one whose mCurrentPotential
\* was no float have both been written
C2_Witness ==
    /\ \E i \in 1..Len(objects) :
          /\ "mCurrentPotential" \notin DOMAIN parsedObjects[i].properties
          /\ "mCurrentPotential" \in DOMAIN objects[i].properties
    /\ \E i \in 1..Len(objects) :
          /\ "mCurrentPotential" \in DOMAIN parsedObjects[i].properties
          /\ parsedObjects[i].properties["mCurrentPotential"].type # "FloatProperty"
          /\ objects[i].properties["mCurrentPotential"].type = "FloatProperty"

\* C3: at every point of a run, returned or aborted, the entity collection
\* has the length and order it was given with, every entity has its typePath
\* and instanceName, and every property other than mCurrentPotential and
\* mPendingPotential is present exactly as before.
C3_OnlyClockPropertiesChange ==
    /\ Len(objects) = Len(parsedObjects)
    /\ \A i \in 1..Len(parsedObjects) :
        /\ objects[i].typePath = parsedObjects[i].typePath
        /\ objects[i].instanceName = parsedObjects[i].instanceName
        /\ DOMAIN objects[i].properties \ ClockProperties =
               DOMAIN parsedObjects[i].properties \ ClockProperties
        /\ \A name \in DOMAIN parsedObjects[i].properties \ ClockProperties :
               objects[i].properties[name] = parsedObjects[i].properties[name]
        /\ DOMAIN parsedObjects[i].properties \subseteq DOMAIN objects[i].properties

\* an aborted run that had already written an entity carrying another property
C3_Witness ==
    /\ pc = "thrown"
    /\ \E i \in 1..Len(objects) :
          /\ objects[i] # parsedObjects[i]
          /\ "mIsProducing" \in DOMAIN parsedObjects[i].properties

\* C4: a returned call reports one entry per spec, in order, with the spec's
\* machineName and clockSpeed; a spec no machine matches has its entry with
\* matchedCount 0, and the call throws only for a name that does not resolve.
C4_OneReportEntryPerSpec ==
    /\ pc = "returned" =>
          /\ Len(adjustments) = Len(specs)
          /\ \A k \in 1..Len(specs) :
                /\ adjustments[k].machineName = specs[k].machineName
                /\ adjustments[k].requestedClockSpeed = specs[k].clockSpeed
                /\ Matches(k) = {} => adjustments[k].matchedCount = 0
    /\ pc = "thrown" => Unresolved # {}

\* a returned report of two entries, the first with no match
C4_Witness ==
    /\ pc = "returned"
    /\ Len(adjustments) = 2
    /\ adjustments[1].matchedCount = 0
    /\ adjustments[2].matchedCount > 0

\* C5: while a spec is applied whose target is the type path of no tracked
\* machine, no entity and no inventory entry changes, and the entry reported
\* for the spec has matchedCount 0.
C5_UnmatchedSpecChangesNothing ==
    [][(pc = "scan" /\ Matches(specIdx) = {}) =>
          /\ objects' = objects
          /\ machines' = machines
          /\ matchedCount' = 0
          /\ pc' = "apply" =>
                adjustments'[Len(adjustments')].matchedCount = 0]_vars

\* machines of two kinds are tracked and a spec of a third kind has been
\* reported
C5_Witness ==
    /\ pc = "apply"
    /\ specIdx = 2
    /\ Matches(1) = {}
    /\ Truthy(Resolved(1))
    /\ Cardinality({ parsedObjects[i].typePath : i \in Tracked }) = 2

\* C6: when some spec's name does not resolve, the call never returns and
\* ends only by throwing; it throws "Unknown machine type", naming the known
\* types, at the first such spec, and neither that spec nor any later one is
\* applied or reported.
C6_UnknownMachineTypeAborts ==
    /\ Unresolved # {} =>
          /\ pc # "returned"
          /\ specIdx <= FirstUnresolved
          /\ Len(adjustments) < FirstUnresolved
          /\ specIdx = FirstUnresolved => pc # "scan"
          /\ ~ENABLED Next => pc = "thrown"
    /\ pc = "thrown" <=> thrown # NoError
    /\ pc = "thrown" =>
          /\ specIdx = FirstUnresolved
          /\ thrown.message = UnknownMachineType
          /\ thrown.machineName = specs[specIdx].machineName
          /\ thrown.knownTypes = DOMAIN MACHINE_TYPE_PATHS

\* the call threw at its second spec
C6_Witness ==
    /\ pc = "thrown"
    /\ specIdx = 2
    /\ Len(adjustments) = 1

-----------------------------------------------------------------------------
(* parseClockSpeedSpec on its own: every batch text of a bounded length     *)

MaxTextLen == 7
MaxPairLen == 5
MaxMultiplierLen == 4

\* the symbols of batch texts of several pairs
BatchAlphabet == {",", ":", "A", "2"}
\* the symbols of texts with white space and a decimal point
PairAlphabet == {",", ":", " ", "A", "2", "."}
\* the symbols of the multiplier of a pair
MultiplierAlphabet == {"2", "0", ".", "-", "+", "e", "Infinity", "A"}

StringsOver(alphabet, maxLen) == UNION { [1..n -> alphabet] : n \in 0..maxLen }

Texts ==
    StringsOver(BatchAlphabet, MaxTextLen) \cup
    StringsOver(PairAlphabet, MaxPairLen) \cup
    { <<"A", ":">> \o t : t \in StringsOver(MultiplierAlphabet, MaxMultiplierLen) }

InitParse ==
    /\ text \in Texts
    /\ parsed = NotParsed
    /\ pc = "idle"
    /\ objects = <<>>
    /\ parsedObjects = <<>>
    /\ specs = <<>>
    /\ machines = <<>>
    /\ adjustments = <<>>
    /\ objIdx = 1
    /\ specIdx = 1
    /\ machineIdx = 1
    /\ matchedCount = 0
    /\ targetTypePath = NullValue
    /\ thrown = NoError
    /\ query = <<>>
    /\ resolved = NotResolved
    /\ machineEntity = NoEntity
    /\ lastCall = NoCall
    /\ StreamIdle
    /\ FormatIdle
    /\ ShellIdle

\* the call parseClockSpeedSpec(text), lines 110-143
ParseClockSpeedSpec ==
    /\ parsed = NotParsed
    /\ parsed' = parseClockSpeedSpec(text)
    /\ UNCHANGED <<text, engineVars, otherVars>>

NextParse == ParseClockSpeedSpec

SpecParse == InitParse /\ [][NextParse]_vars

-----------------------------------------------------------------------------
(* Vocabulary of the properties of parseClockSpeedSpec, stated on the      *)
(* positions of the text rather than by scanning it                        *)

CommaPositions == { i \in 1..Len(text) : text[i] = "," }

\* the k-th member of a set of integers, in increasing order
NthOf(S, k) == CHOOSE i \in S : Cardinality({ j \in S : j < i }) = k - 1

NumPieces == Cardinality(CommaPositions) + 1

\* the text between the (k-1)-th and the k-th comma
PieceOf(k) ==
    SubSeq(text,
           IF k = 1 THEN 1 ELSE NthOf(CommaPositions, k - 1) + 1,
           IF k = NumPieces THEN Len(text) ELSE NthOf(CommaPositions, k) - 1)

\* s without the white space around it
Strip(s) ==
    LET inked == { i \in 1..Len(s) : s[i] \notin WhiteSpace } IN
    IF inked = {} THEN <<>>
    ELSE SubSeq(s, CHOOSE i \in inked : \A j \in inked : i <= j,
                   CHOOSE i \in inked : \A j \in inked : j <= i)

\* the pieces that are not empty once stripped
NonEmptyPieces == { k \in 1..NumPieces : Strip(PieceOf(k)) # <<>> }

NumPairs == Cardinality(NonEmptyPieces)

\* the n-th non-empty pair of the text, stripped
PairOf(n) == Strip(PieceOf(NthOf(NonEmptyPieces, n)))

HasColon(p) == \E i \in 1..Len(p) : p[i] = ":"

LastColon(p) == CHOOSE i \in 1..Len(p) : p[i] = ":" /\ \A j \in (i+1)..Len(p) : p[j] # ":"

\* the texts left and right of the last colon of a pair, stripped
NameText(p) == Strip(SubSeq(p, 1, LastColon(p) - 1))
MultiplierText(p) == Strip(SubSeq(p, LastColon(p) + 1, Len(p)))

\* digits, or digits "." digits
PlainDecimal(t) ==
    /\ t # <<>>
    /\ \A i \in 1..Len(t) : t[i] \in Digits \cup {"."}
    /\ Cardinality({ i \in 1..Len(t) : t[i] = "." }) <= 1
    /\ t[1] \in Digits
    /\ t[Len(t)] \in Digits

SomeNonZeroDigit(t) == \E i \in 1..Len(t) : t[i] \in Digits \ {"0"}

\* the number a plain decimal writes
PlainDecimalValue(t) ==
    LET dots == { i \in 1..Len(t) : t[i] = "." }
        fractionDigits == IF dots = {} THEN 0 ELSE Len(t) - (CHOOSE i \in dots : TRUE)
    IN Num(DigitsValue(SelectSeq(t, LAMBDA c : c \in Digits), 0), 0 - fractionDigits)

\* a pair "name:multiplier" with a name and a positive plain decimal
WellFormedPair(p) ==
    /\ HasColon(p)
    /\ NameText(p) # <<>>
    /\ PlainDecimal(MultiplierText(p))
    /\ SomeNonZeroDigit(MultiplierText(p))

\* t, an optional sign aside, begins with a digit, with "." and a digit, or with Infinity
BeginsWithNumber(t) ==
    LET r == IF t # <<>> /\ t[1] \in {"+", "-"} THEN Tail(t) ELSE t IN
    /\ r # <<>>
    /\ \/ r[1] \in Digits
       \/ r[1] = "Infinity"
       \/ r[1] = "." /\ Len(r) >= 2 /\ r[2] \in Digits

\* the number t begins with is negative, or all the digits of its mantissa are 0
BeginsWithNonPositive(t) ==
    /\ BeginsWithNumber(t)
    /\ \/ t[1] = "-"
       \/ LET r == IF t[1] = "+" THEN Tail(t) ELSE t IN
          /\ r[1] # "Infinity"
          /\ \A i \in 1..Len(r) :
                (/\ \A j \in 1..i : r[j] \in Digits \cup {"."}
                 /\ Cardinality({ j \in 1..i : r[j] = "." }) <= 1)
                => r[i] \in {"0", "."}

\* the defects of a pair, by the message each is reported with
Defects(p) ==
    IF ~HasColon(p) THEN {"expected format"}
    ELSE (IF NameText(p) = <<>> THEN {"missing machine name"} ELSE {}) \cup
         (IF ~BeginsWithNumber(MultiplierText(p)) \/ BeginsWithNonPositive(MultiplierText(p))
          THEN {"must be a positive number"} ELSE {})

MalformedPairs == { n \in 1..NumPairs : Defects(PairOf(n)) # {} }

FirstMalformed == PairOf(CHOOSE n \in MalformedPairs : \A l \in MalformedPairs : n <= l)

\* C8: for a text with at least one non-empty pair, all of them well formed,
\* parseClockSpeedSpec returns one spec per non-empty pair, in order, whose
\* machineName is the stripped, lower-cased text left of the pair's last colon
\* and whose clockSpeed is the number written right of it.
C8_ParsesWellFormedBatch ==
    (/\ parsed # NotParsed
     /\ NumPairs >= 1
     /\ \A n \in 1..NumPairs : WellFormedPair(PairOf(n)))
    => /\ parsed.status = "returned"
       /\ Len(parsed.specs) = NumPairs
       /\ \A n \in 1..NumPairs :
             /\ parsed.specs[n].machineName =
                   [i \in 1..Len(NameText(PairOf(n))) |-> toLowerCaseSym(NameText(PairOf(n))[i])]
             /\ parsed.specs[n].clockSpeed = PlainDecimalValue(MultiplierText(PairOf(n)))

\* two pairs were parsed, in the order of the text
C8_Witness ==
    /\ parsed.status = "returned"
    /\ NumPairs = 2
    /\ \A n \in 1..NumPairs : WellFormedPair(PairOf(n))
    /\ Len(parsed.specs) = 2

\* C9: when some non-empty pair has no colon, no name, or a multiplier that
\* begins with no number or with a number <= 0, parseClockSpeedSpec throws and
\* returns no list; the error is the one of the first such pair: "expected
\* format" without a colon, else "missing machine name" or "must be a positive
\* number" according to its defect.
C9_RejectsMalformedPair ==
    (parsed # NotParsed /\ MalformedPairs # {})
    => /\ parsed.status = "thrown"
       /\ parsed.specs = <<>>
       /\ parsed.error.message \in Defects(FirstMalformed)
       /\ parsed.error.message \in {"expected format", "missing machine name"}
             => parsed.error.spec = FirstMalformed
       /\ parsed.error.message = "must be a positive number"
             => /\ parsed.error.machineName = NameText(FirstMalformed)
                /\ parsed.error.clockSpeedStr = MultiplierText(FirstMalformed)

\* the second pair of a text was rejected for its multiplier
C9_Witness ==
    /\ parsed.status = "thrown"
    /\ NumPairs = 2
    /\ MalformedPairs = {2}
    /\ parsed.error.message = "must be a positive number"

\* an optional sign, then digits with at most one ".", then an optional
\* exponent: the text as a whole is a finite decimal number
WholeDecimal(t) ==
    LET r == IF t # <<>> /\ t[1] \in {"+", "-"} THEN Tail(t) ELSE t
        es == { i \in 1..Len(r) : r[i] \in {"e", "E"} }
        mantissa == IF es = {} THEN r ELSE SubSeq(r, 1, (CHOOSE i \in es : \A j \in es : i <= j) - 1)
        rest == IF es = {} THEN <<>> ELSE SubSeq(r, (CHOOSE i \in es : \A j \in es : i <= j) + 1, Len(r))
        exponent == IF rest # <<>> /\ rest[1] \in {"+", "-"} THEN Tail(rest) ELSE rest
    IN /\ \A i \in 1..Len(mantissa) : mantissa[i] \in Digits \cup {"."}
       /\ Cardinality({ i \in 1..Len(mantissa) : mantissa[i] = "." }) <= 1
       /\ \E i \in 1..Len(mantissa) : mantissa[i] \in Digits
       /\ es # {} => /\ exponent # <<>>
                     /\ \A i \in 1..Len(exponent) : exponent[i] \in Digits

\* C10: parseClockSpeedSpec accepts a text only if, in each of its non-empty
\* pairs, the whole stripped text right of the last colon is a finite decimal
\* number greater than 0.
C10_AcceptsOnlyWholeDecimals ==
    parsed.status = "returned" =>
        \A n \in 1..NumPairs :
            /\ HasColon(PairOf(n))
            /\ WholeDecimal(MultiplierText(PairOf(n)))
            /\ ~BeginsWithNonPositive(MultiplierText(PairOf(n)))

\* C11: a text none of whose pieces holds anything but white space (the empty
\* text, white space, commas and white space) makes parseClockSpeedSpec throw
\* "No valid clock speed specifications provided", and no call returns an
\* empty list.
C11_NoEntryIsAnError ==
    /\ (parsed # NotParsed /\ NumPairs = 0) =>
          /\ parsed.status = "thrown"
          /\ parsed.error.message = "No valid clock speed specifications provided"
    /\ parsed.status = "returned" => Len(parsed.specs) >= 1

\* a text of commas and white space was rejected
C11_Witness ==
    /\ parsed.status = "thrown"
    /\ parsed.error.message = "No valid clock speed specifications provided"
    /\ \E i \in 1..Len(text) : text[i] = ","
    /\ \E i \in 1..Len(text) : text[i] = " "

\* v > 0
GreaterThanZero(v) == v.kind \in {"finite", "Infinity"} /\ v.m > 0

\* C12: every spec parseClockSpeedSpec returns has a machineName that is not
\* empty and holds no letter that toLowerCase would change, and a clockSpeed
\* that is a number greater than 0.
C12_ReturnedSpecsAreValid ==
    parsed.status = "returned" =>
        \A n \in 1..Len(parsed.specs) :
            /\ parsed.specs[n].machineName # <<>>
            /\ \A i \in 1..Len(parsed.specs[n].machineName) :
                  parsed.specs[n].machineName[i] \notin DOMAIN LowerTable
            /\ GreaterThanZero(parsed.specs[n].clockSpeed)

\* two specs were returned for a text that writes a name in upper case
C12_Witness ==
    /\ parsed.status = "returned"
    /\ Len(parsed.specs) = 2
    /\ \E i \in 1..Len(text) : text[i] = "A"
    /\ \E i \in 1..Len(parsed.specs[1].machineName) : parsed.specs[1].machineName[i] = "a"

-----------------------------------------------------------------------------
(* resolveTypePath on its own: names in every mix of cases, raw type paths, *)
(* and texts that are neither.  The model spells a namespace prefix only as *)
(* its one symbol.                                                          *)

MaxCapitals == 2
MaxOtherLen == 2

UpperCaseLetters ==
    {"A", "B", "C", "D", "E", "F", "G", "H", "I", "J", "K", "L", "M",
     "N", "O", "P", "Q", "R", "S", "T", "U", "V", "W", "X", "Y", "Z"}

\* the upper-case letter that toLowerCase maps to c, or c
toUpperCaseSym(c) ==
    IF \E u \in UpperCaseLetters : LowerTable[u] = c
    THEN CHOOSE u \in UpperCaseLetters : LowerTable[u] = c
    ELSE c

\* the sets of at most k of the positions 1..n
CapitalSets(n, k) == { { p[i] : i \in 1..k } \ {0} : p \in [1..k -> 0..n] }

\* name with at most MaxCapitals of its letters, or with all of them, in upper case
CaseVariants(name) ==
    { [i \in 1..Len(name) |-> IF i \in caps THEN toUpperCaseSym(name[i]) ELSE name[i]] :
        caps \in CapitalSets(Len(name), MaxCapitals) \cup {1..Len(name)} }

RegisteredNameQueries == UNION { CaseVariants(name) : name \in DOMAIN MACHINE_TYPE_PATHS }

\* what follows the prefix in a type path: the registered ones, one of an
\* unregistered kind, and each of them in lower case
TypePathBodies ==
    LET bodies == { MACHINE_TYPE_PATHS[name][2] : name \in DOMAIN MACHINE_TYPE_PATHS } \cup
                  {"FactoryGame/Buildable/Factory/StorageContainerMk1/Build_StorageContainerMk1.Build_StorageContainerMk1_C"}
    IN bodies \cup { toLowerCaseSym(b) : b \in bodies }

\* raw type paths, and the same texts with the prefix in lower case or after a space
TypePathQueries ==
    { <<prefix, body>> : prefix \in {"/Game/", "/Script/", "/game/", "/script/"},
                         body \in TypePathBodies } \cup
    { <<" ", prefix, body>> : prefix \in {"/Game/", "/Script/"}, body \in TypePathBodies }

OtherAlphabet == {"a", "A", "_", "-", " ", "/Game/", "/Script/"}

OtherQueries ==
    StringsOver(OtherAlphabet, MaxOtherLen) \cup
    { <<"u", "n", "k", "n", "o", "w", "n", "m", "a", "c", "h", "i", "n", "e">>,
      <<"r", "e", "f", "i", "n", "e", "r">>,
      <<"r", "e", "f", "i", "n", "e", "r", "y", " ">>,
      <<"o", "i", "l", "r", "e", "f", "i", "n", "e", "r", "y">>,
      <<"p", "a", "r", "t", "i", "c", "l", "e", "-", "a", "c", "c", "e", "l", "e", "r", "a", "t", "o", "r">>,
      <<"q", "u", "a", "n", "t", "u", "m", "-", "e", "n", "c", "o", "d", "e", "r">>,
      <<"_", "_", "p", "r", "o", "t", "o", "_", "_">>,
      <<"_", "_", "P", "r", "o", "t", "o", "_", "_">>,
      <<"t", "o", "s", "t", "r", "i", "n", "g">> }

Queries == RegisteredNameQueries \cup TypePathQueries \cup OtherQueries

\* adjustBlueprintClockSpeeds is not running
EngineIdle ==
    /\ pc = "idle"
    /\ objects = <<>>
    /\ parsedObjects = <<>>
    /\ specs = <<>>
    /\ machines = <<>>
    /\ adjustments = <<>>
    /\ objIdx = 1
    /\ specIdx = 1
    /\ machineIdx = 1
    /\ matchedCount = 0
    /\ targetTypePath = NullValue
    /\ thrown = NoError

InitResolve ==
    /\ query \in Queries
    /\ resolved = NotResolved
    /\ EngineIdle
    /\ text = <<>>
    /\ parsed = NotParsed
    /\ machineEntity = NoEntity
    /\ lastCall = NoCall
    /\ StreamIdle
    /\ FormatIdle
    /\ ShellIdle

\* the call resolveTypePath(query), lines 148-158
ResolveTypePath ==
    /\ resolved = NotResolved
    /\ resolved' = resolveTypePath(query)
    /\ UNCHANGED <<query, engineVars, parserVars, accessorVars, streamVars, formatVars,
                   shellVars>>

NextResolve == ResolveTypePath

SpecResolve == InitResolve /\ [][NextResolve]_vars

-----------------------------------------------------------------------------
(* Vocabulary of the properties of resolveTypePath *)

\* q spells name, each letter in either case
IsCaseVariant(q, name) ==
    /\ Len(q) = Len(name)
    /\ \A i \in 1..Len(name) :
          \/ q[i] = name[i]
          \/ q[i] \in UpperCaseLetters /\ LowerTable[q[i]] = name[i]

\* the registered names q spells
RegisteredAs(q) == { name \in DOMAIN MACHINE_TYPE_PATHS : IsCaseVariant(q, name) }

\* q begins with a namespace prefix
RawShaped(q) == q # <<>> /\ q[1] \in {"/Game/", "/Script/"}

\* C13: for every registered friendly name, resolveTypePath of the name
\* written in any mix of upper and lower case is the type path registered
\* under that name.
C13_ResolvesNamesInAnyCase ==
    \A name \in DOMAIN MACHINE_TYPE_PATHS :
        (resolved # NotResolved /\ IsCaseVariant(query, name)) =>
            resolved = StringValue(MACHINE_TYPE_PATHS[name])

\* a name written all in upper case was resolved
C13_Witness ==
    /\ resolved.kind = "string"
    /\ RegisteredAs(query) # {}
    /\ \A i \in 1..Len(query) : query[i] \in UpperCaseLetters

\* C14: resolveTypePath of a text that begins with "/Game/" or "/Script/" is
\* that text, symbol for symbol, whether or not it is a registered type path.
C14_RawTypePathIsReturnedUnchanged ==
    (resolved # NotResolved /\ RawShaped(query)) => resolved = StringValue(query)

\* an unregistered path under /Script/ was returned as given
C14_Witness ==
    /\ resolved = StringValue(query)
    /\ Len(query) = 2
    /\ query[1] = "/Script/"
    /\ query \notin RegisteredTypePaths
    /\ query[2] \in DOMAIN LowerTable

\* C15: resolveTypePath of a text that spells no registered name in any case
\* and does not begin with a namespace prefix is null, and resolveTypePath
\* returns nothing but a string or null.
C15_OtherInputsYieldNoMatch ==
    /\ (resolved # NotResolved /\ RegisteredAs(query) = {} /\ ~RawShaped(query))
          => resolved = NullValue
    /\ resolved.kind \in {"pending", "string", "null"}

\* the friendly names as the specification lists them
ListedFriendlyNames ==
    { <<"c", "o", "n", "s", "t", "r", "u", "c", "t", "o", "r">>,
      <<"a", "s", "s", "e", "m", "b", "l", "e", "r">>,
      <<"m", "a", "n", "u", "f", "a", "c", "t", "u", "r", "e", "r">>,
      <<"r", "e", "f", "i", "n", "e", "r", "y">>,
      <<"p", "a", "c", "k", "a", "g", "e", "r">>,
      <<"s", "m", "e", "l", "t", "e", "r">>,
      <<"f", "o", "u", "n", "d", "r", "y">>,
      <<"b", "l", "e", "n", "d", "e", "r">>,
      <<"p", "a", "r", "t", "i", "c", "l", "e", "-", "a", "c", "c", "e", "l", "e", "r", "a", "t", "o", "r">>,
      <<"q", "u", "a", "n", "t", "u", "m", "-", "e", "n", "c", "o", "d", "e", "r">>,
      <<"c", "o", "n", "v", "e", "r", "t", "e", "r">> }

\* the same names with particleaccelerator and quantumencoder written without a hyphen
UnhyphenatedFriendlyNames ==
    { SelectSeq(name, LAMBDA c : c # "-") : name \in ListedFriendlyNames }

\* resolveTypePath resolved the name to a type path
ResolvedToTypePath == resolved.kind = "string" /\ RawShaped(resolved.str)

\* C18 as stated: the registered names are the eleven listed ones, the names
\* of the particle accelerator and the quantum encoder hyphenated, and
\* resolveTypePath resolves each listed name to a type path.
C18_ListedNamesResolve ==
    /\ (resolved # NotResolved /\ query \in ListedFriendlyNames) => ResolvedToTypePath
    /\ (resolved # NotResolved /\ query \in DOMAIN MACHINE_TYPE_PATHS)
          => query \in ListedFriendlyNames

\* C18, amended: the registered names are the eleven listed ones with
\* particleaccelerator and quantumencoder written without a hyphen, and
\* resolveTypePath resolves each of them to the type path registered under it.
C18_UnhyphenatedNamesResolve ==
    /\ DOMAIN MACHINE_TYPE_PATHS = UnhyphenatedFriendlyNames
    /\ Cardinality(UnhyphenatedFriendlyNames) = 11
    /\ (resolved # NotResolved /\ query \in UnhyphenatedFriendlyNames) =>
          /\ ResolvedToTypePath
          /\ resolved.str = MACHINE_TYPE_PATHS[query]

\* the name of the converter was resolved
C18_Witness ==
    /\ query = <<"c", "o", "n", "v", "e", "r", "t", "e", "r">>
    /\ ResolvedToTypePath

-----------------------------------------------------------------------------
(* The pipeline of main: the batch text of the command line is parsed and  *)
(* the specs it yields are applied to the decoded blueprint                *)

MaxPipelineObjects == 2
MaxPipelinePairs == 1

StorageContainerPath ==
    <<"/Game/", "FactoryGame/Buildable/Factory/StorageContainerMk1/Build_StorageContainerMk1.Build_StorageContainerMk1_C">>

\* the names written in the batch text: friendly names, raw type paths of a
\* registered and of an unregistered kind, an unknown name and no name
PipelineNames ==
    { <<"r", "e", "f", "i", "n", "e", "r", "y">>,
      <<"M", "a", "n", "u", "f", "a", "c", "t", "u", "r", "e", "r">>,
      RefineryPath,
      StorageContainerPath,
      <<"u", "n", "k", "n", "o", "w", "n">>,
      <<>> }

PipelineMultipliers == { <<"2">>, <<"0">>, <<"3", ".", "6", "6">> }

PipelinePairs == { name \o <<":">> \o multiplier :
                     name \in PipelineNames, multiplier \in PipelineMultipliers }

\* the pairs, a comma between each two
RECURSIVE JoinPairs(_)
JoinPairs(pairs) ==
    IF Len(pairs) = 1 THEN pairs[1]
    ELSE pairs[1] \o <<",">> \o JoinPairs(Tail(pairs))

PipelineTexts ==
    UNION { { JoinPairs(pairs) : pairs \in [1..n -> PipelinePairs] } : n \in 1..MaxPipelinePairs }

PipelineBlueprints ==
    UNION { { [k \in 1..n |-> [typePath |-> kinds[k].typePath,
                               instanceName |-> k,
                               properties |-> kinds[k].properties]] :
              kinds \in [1..n -> EntityKinds] } : n \in 0..MaxPipelineObjects }

\* C16: when a pair of the batch text names its machine by a raw type path,
\* the spec parsed from the pair carries that path symbol for symbol and
\* resolves to it, adjustBlueprintClockSpeeds does not throw "Unknown machine
\* type" at the spec, and on return the spec's matchedCount is the number of
\* tracked entities with exactly that type path.
C16_RawTypePathThroughPipeline ==
    parsed.status = "returned" =>
        \A n \in 1..NumPairs :
            RawShaped(NameText(PairOf(n))) =>
                /\ specs[n].machineName = NameText(PairOf(n))
                /\ Resolved(n) = StringValue(NameText(PairOf(n)))
                /\ ~(pc = "thrown" /\ specIdx = n)
                /\ pc = "returned" =>
                      adjustments[n].matchedCount =
                          Cardinality({ i \in Tracked :
                                          parsedObjects[i].typePath = NameText(PairOf(n)) })

-----------------------------------------------------------------------------
(* Further properties of adjustBlueprintClockSpeeds *)

\* C17: the inventory lists an entity only under the friendly name whose
\* registered type path is, symbol for symbol, the entity's typePath; an
\* entity whose typePath is not registered is in no inventory entry and is
\* never changed, whatever the specs, raw type paths included.
C17_UnregisteredEntitiesAreInvisible ==
    /\ \A m \in 1..Len(machines) :
          /\ machines[m].friendlyName \in DOMAIN MACHINE_TYPE_PATHS
          /\ MACHINE_TYPE_PATHS[machines[m].friendlyName] = machines[m].typePath
          /\ parsedObjects[machines[m].objectIndex].typePath = machines[m].typePath
    /\ \A i \in 1..Len(parsedObjects) :
          parsedObjects[i].typePath \notin RegisteredTypePaths =>
              /\ objects[i] = parsedObjects[i]
              /\ \A m \in 1..Len(machines) : machines[m].objectIndex # i

\* a call returned whose spec named, by its raw type path, the unregistered
\* kind of an entity of the blueprint
C17_Witness ==
    /\ pc = "returned"
    /\ \E i \in 1..Len(parsedObjects), k \in 1..Len(specs) :
          /\ parsedObjects[i].typePath \notin RegisteredTypePaths
          /\ Resolved(k) = StringValue(parsedObjects[i].typePath)
          /\ adjustments[k].matchedCount = 0
    /\ objects # parsedObjects

\* C20: on return there is one report entry per spec; two specs that resolve
\* to the same target report the same matchedCount, and every entity of that
\* target, and its inventory entry, holds the clockSpeed of the last of the
\* specs that resolve to it.
C20_DuplicateNamesLastWins ==
    pc = "returned" =>
        /\ Len(adjustments) = Len(specs)
        /\ \A k \in 1..Len(specs), l \in 1..Len(specs) :
              (k < l /\ Resolved(k) = Resolved(l)) =>
                  /\ adjustments[k].matchedCount = adjustments[l].matchedCount
                  /\ (\A j \in (l+1)..Len(specs) : Resolved(j) # Resolved(l)) =>
                        /\ \A i \in Matches(k) :
                              HasClockSpeed(objects[i], specs[l].clockSpeed)
                        /\ \A m \in 1..Len(machines) :
                              machines[m].objectIndex \in Matches(k) =>
                                  machines[m].currentClockSpeed = specs[l].clockSpeed

\* two specs of different speeds named the kind of two machines
C20_Witness ==
    /\ pc = "returned"
    /\ Len(specs) = 2
    /\ Resolved(1) = Resolved(2)
    /\ specs[1].clockSpeed # specs[2].clockSpeed
    /\ adjustments[1].matchedCount = 2
    /\ adjustments[2].matchedCount = 2

\* adjustBlueprintClockSpeeds over the same blueprints and spec lists, the
\* specification of the properties of its inventory
SpecInventory == Init /\ [][Next]_vars

\* the entities the inventory loop has visited so far
Scanned == IF pc = "inventory" THEN objIdx - 1 ELSE Len(parsedObjects)

\* the registered entities among them
TrackedSoFar == { i \in Tracked : i <= Scanned }

\* C25: the inventory is the subsequence of the entities of a registered
\* typePath, in scan order: its objectIndex values increase strictly, an
\* entry carries the typePath and the instanceName of the entity at its
\* objectIndex and the friendly name registered for that typePath, and once
\* the inventory loop has ended the entries are those of all registered
\* entities in every later state, so the apply pass adds, removes and
\* reorders none.
C25_InventoryIsRegisteredSubsequence ==
    /\ { machines[m].objectIndex : m \in 1..Len(machines) } = TrackedSoFar
    /\ \A m \in 1..Len(machines) :
          LET i == machines[m].objectIndex
          IN /\ m < Len(machines) => i < machines[m + 1].objectIndex
             /\ machines[m].typePath = parsedObjects[i].typePath
             /\ machines[m].instanceName = parsedObjects[i].instanceName
             /\ machines[m].friendlyName \in DOMAIN MACHINE_TYPE_PATHS
             /\ MACHINE_TYPE_PATHS[machines[m].friendlyName] = parsedObjects[i].typePath

\* a call returned that changed a machine, on a blueprint whose first entity
\* is not registered and is followed by two registered ones
C25_Witness ==
    /\ pc = "returned"
    /\ Len(parsedObjects) = 3
    /\ Tracked = {2, 3}
    /\ Len(machines) = 2
    /\ \E k \in 1..Len(adjustments) : adjustments[k].matchedCount >= 1

\* C26: at every point of the apply pass the running matchedCount, and in
\* every report entry the reported matchedCount, is an integer from 0 to the
\* number of inventory entries.
C26_MatchedCountWithinInventory ==
    pc \in {"apply", "scan", "returned", "thrown"} =>
        /\ matchedCount \in 0..Len(machines)
        /\ \A k \in 1..Len(adjustments) :
              adjustments[k].matchedCount \in 0..Len(machines)

\* two specs were applied: one matched every machine of an inventory of two,
\* the other none
C26_Witness ==
    /\ pc = "returned"
    /\ Len(machines) = 2
    /\ Len(adjustments) = 2
    /\ adjustments[1].matchedCount = 2
    /\ adjustments[2].matchedCount = 0

\* C27: after the inventory pass and after each applied spec, so in the
\* result returned too, the currentClockSpeed of every inventory entry is
\* what getClockSpeed reads from the entity at its objectIndex.
C27_SnapshotFollowsEntity ==
    pc \in {"apply", "returned"} =>
        \A m \in 1..Len(machines) :
            machines[m].currentClockSpeed =
                getClockSpeed(objects[machines[m].objectIndex])

\* a call returned after a spec changed the speed of a machine whose
\* mCurrentPotential was no float property, next to a machine no spec matched
C27_Witness ==
    /\ pc = "returned"
    /\ \E m \in 1..Len(machines) :
          LET i == machines[m].objectIndex
          IN /\ parsedObjects[i].properties = MixedClockProperties
             /\ objects[i] # parsedObjects[i]
             /\ machines[m].currentClockSpeed # DefaultClockSpeed
    /\ \E m \in 1..Len(machines) :
          objects[machines[m].objectIndex] = parsedObjects[machines[m].objectIndex]

-----------------------------------------------------------------------------
(* The clock-speed accessors on their own: an entity with each clock-speed *)
(* property absent or present, of the float kind or another, is read and   *)
(* written                                                                 *)

MaxClockSteps == 2

\* the stored values: 0, 0.5, 1.0, ...
StoredValues == { Num(5 * k, -1) : k \in 0..MaxClockSteps }

PropertyKinds == {"FloatProperty", "IntProperty"}

Absent == [type |-> "absent", ueType |-> "absent", name |-> "", value |-> NaN]

\* what entity.properties may hold under a name: nothing, or a property
PropertyOptions(name) ==
    {Absent} \cup
    { [type |-> kind, ueType |-> kind, name |-> name, value |-> v] :
        kind \in PropertyKinds, v \in StoredValues }

\* entity.properties with the given clock-speed properties, the absent ones left out
PropertiesOf(current, pending, others) ==
    LET given == ("mCurrentPotential" :> current) @@ ("mPendingPotential" :> pending)
        present == { name \in DOMAIN given : given[name] # Absent }
    IN [name \in present |-> given[name]] @@ others

AccessorEntities ==
    { [typePath |-> RefineryPath, instanceName |-> 1,
       properties |-> PropertiesOf(current, pending, others)] :
        current \in PropertyOptions("mCurrentPotential"),
        pending \in PropertyOptions("mPendingPotential"),
        others \in {<<>>, NoClockProperties} }

InitAccessor ==
    /\ machineEntity \in AccessorEntities
    /\ lastCall = NoCall
    /\ EngineIdle
    /\ text = <<>>
    /\ parsed = NotParsed
    /\ query = <<>>
    /\ resolved = NotResolved
    /\ StreamIdle
    /\ FormatIdle
    /\ ShellIdle

\* the call getClockSpeed(machineEntity), lines 61-63
GetClockSpeed ==
    /\ lastCall' = [op |-> "getClockSpeed", before |-> machineEntity,
                    result |-> getClockSpeed(machineEntity)]
    /\ UNCHANGED <<machineEntity, engineVars, parserVars, registryVars, streamVars,
                   formatVars, shellVars>>

\* the call getPendingClockSpeed(machineEntity), lines 66-68
GetPendingClockSpeed ==
    /\ lastCall' = [op |-> "getPendingClockSpeed", before |-> machineEntity,
                    result |-> getPendingClockSpeed(machineEntity)]
    /\ UNCHANGED <<machineEntity, engineVars, parserVars, registryVars, streamVars,
                   formatVars, shellVars>>

\* the call setClockSpeed(machineEntity, clockSpeed), lines 87-90
SetClockSpeed ==
    \E clockSpeed \in StoredValues \ {Num(0, 0)} :
        /\ machineEntity' = setClockSpeed(machineEntity, clockSpeed)
        /\ lastCall' = [op |-> "setClockSpeed", before |-> machineEntity,
                        result |-> clockSpeed]
        /\ UNCHANGED <<engineVars, parserVars, registryVars, streamVars, formatVars,
                       shellVars>>

NextAccessor ==
    \/ GetClockSpeed
    \/ GetPendingClockSpeed
    \/ SetClockSpeed

SpecAccessor == InitAccessor /\ [][NextAccessor]_vars

\* what a read of the property name of the entity is to return
ExpectedRead(e, name, result) ==
    /\ name \notin DOMAIN e.properties => result = Num(1, 0)
    /\ name \in DOMAIN e.properties =>
          /\ e.properties[name].type = "FloatProperty" => result = e.properties[name].value
          /\ e.properties[name].type # "FloatProperty" => result = Num(1, 0)

\* C19: getClockSpeed returns the value stored under mCurrentPotential when
\* that property is present and a float property, and 1.0 when it is absent
\* or of another kind; getPendingClockSpeed does the same for
\* mPendingPotential; the entity is after either call what it was before.
C19_ReadsStoredValueOrDefault ==
    /\ lastCall.op = "getClockSpeed" =>
          /\ ExpectedRead(lastCall.before, "mCurrentPotential", lastCall.result)
          /\ machineEntity = lastCall.before
    /\ lastCall.op = "getPendingClockSpeed" =>
          /\ ExpectedRead(lastCall.before, "mPendingPotential", lastCall.result)
          /\ machineEntity = lastCall.before

\* the pending speed of an entity was read as the default because the
\* property, though it stores another value, is no float property, while its
\* current speed is stored in a float property
C19_Witness ==
    /\ lastCall.op = "getPendingClockSpeed"
    /\ lastCall.result = Num(1, 0)
    /\ "mPendingPotential" \in DOMAIN machineEntity.properties
    /\ machineEntity.properties["mPendingPotential"].value = Num(5, -1)
    /\ "mCurrentPotential" \in DOMAIN machineEntity.properties
    /\ getClockSpeed(machineEntity) = Num(0, 0)

-----------------------------------------------------------------------------
(* SimpleWaitForConsumerLock, and the producer and the pull signal of      *)
(* CreateReadableStreamFromSaveToJson that meet in it.  The function a     *)
(* waiting write passes to lock() is the resolve of the promise it awaits: *)
(* the write goes on once that function has been executed.                 *)

MaxCalls == 6
MaxWrites == 3

\* unlock() that leaves the function it executed in place
unlockKeepsFunction(self) ==
    LET cleared == [self EXCEPT !.locked = FALSE]
    IN IF cleared.executionFn # Undefined
       THEN [lock |-> cleared, ran |-> <<cleared.executionFn>>]
       ELSE [lock |-> [cleared EXCEPT !.unlockWasCalledInTheMeantime = TRUE],
             ran |-> <<>>]

\* unlock(), lines 44-52: the lock after the call, and the functions the
\* call executed
unlock(self) ==
    LET cleared == [self EXCEPT !.locked = FALSE]
    IN IF cleared.executionFn # Undefined
       THEN [lock |-> [cleared EXCEPT !.executionFn = Undefined],
             ran |-> <<cleared.executionFn>>]
       ELSE [lock |-> [cleared EXCEPT !.unlockWasCalledInTheMeantime = TRUE],
             ran |-> <<>>]

\* lock() that never unlocks by itself
lockWithoutEarlyUnlock(self, executionFn) ==
    [lock |-> [self EXCEPT !.executionFn = executionFn, !.locked = TRUE],
     ran |-> <<>>]

\* lock(executionFn), lines 33-39
lock(self, executionFn) ==
    LET stored == [self EXCEPT !.executionFn = executionFn, !.locked = TRUE]
    IN IF stored.unlockWasCalledInTheMeantime
       THEN unlock(stored)
       ELSE [lock |-> stored, ran |-> <<>>]

\* the lock() calls made so far; the function of the n-th is n
LockCalls == { k \in 1..Len(calls) : calls[k].op = "lock" }
UnlockCalls == { k \in 1..Len(calls) : calls[k].op = "unlock" }

\* the state in which a lock has been constructed and nothing else runs
InitLock ==
    /\ waitForConsumerLock = NewLock
    /\ executed = <<>>
    /\ calls = <<>>
    /\ producer = "idle"
    /\ enqueued = <<>>
    /\ EngineIdle
    /\ text = <<>>
    /\ parsed = NotParsed
    /\ query = <<>>
    /\ resolved = NotResolved
    /\ machineEntity = NoEntity
    /\ lastCall = NoCall
    /\ FormatIdle
    /\ ShellIdle

\* a call lock(fn) with a function not passed before
Lock ==
    /\ Len(calls) < MaxCalls
    /\ LET fn == Cardinality(LockCalls) + 1
           after == lock(waitForConsumerLock, fn)
       IN /\ waitForConsumerLock' = after.lock
          /\ executed' = executed \o after.ran
          /\ calls' = Append(calls, [op |-> "lock", fn |-> fn,
                                     before |-> waitForConsumerLock, ran |-> after.ran])
    /\ UNCHANGED <<producer, enqueued, engineVars, parserVars, registryVars,
                   accessorVars, formatVars, shellVars>>

\* a call unlock()
Unlock ==
    /\ Len(calls) < MaxCalls
    /\ LET after == unlock(waitForConsumerLock)
       IN /\ waitForConsumerLock' = after.lock
          /\ executed' = executed \o after.ran
          /\ calls' = Append(calls, [op |-> "unlock", fn |-> Undefined,
                                     before |-> waitForConsumerLock, ran |-> after.ran])
    /\ UNCHANGED <<producer, enqueued, engineVars, parserVars, registryVars,
                   accessorVars, formatVars, shellVars>>

NextLock ==
    \/ Lock
    \/ Unlock

SpecLock == InitLock /\ [][NextLock]_vars

\* how often the function fn has been executed
Executions(fn) == Cardinality({ i \in 1..Len(executed) : executed[i] = fn })

\* before the k-th call, unlock() was called while no function was stored
UnlockedEmptyBefore(k) ==
    \E j \in 1..(k - 1) :
        calls[j].op = "unlock" /\ calls[j].before.executionFn = Undefined

\* C29: lock(fn) activates the lock and stores fn, unless unlock() was called
\* earlier while no function was stored: then it unlocks at once and executes
\* fn.  unlock() clears the lock, and executes the stored function if there is
\* one and nothing otherwise.  Whatever the sequence of calls, no function is
\* executed twice and the lock is not held when unlock() has returned.
C29_LockStoresUnlockExecutesOnce ==
    /\ \A fn \in 1..Cardinality(LockCalls) : Executions(fn) <= 1
    /\ calls # <<>> =>
          LET k == Len(calls)
              call == calls[k]
          IN /\ (call.op = "lock" /\ ~UnlockedEmptyBefore(k)) =>
                    /\ waitForConsumerLock.locked
                    /\ waitForConsumerLock.executionFn = call.fn
                    /\ call.ran = <<>>
                    /\ Executions(call.fn) = 0
             /\ (call.op = "lock" /\ UnlockedEmptyBefore(k)) =>
                    /\ ~waitForConsumerLock.locked
                    /\ waitForConsumerLock.executionFn = Undefined
                    /\ call.ran = <<call.fn>>
                    /\ Executions(call.fn) = 1
             /\ call.op = "unlock" =>
                    /\ ~waitForConsumerLock.locked
                    /\ waitForConsumerLock.executionFn = Undefined
                    /\ call.ran = IF call.before.executionFn # Undefined
                                  THEN <<call.before.executionFn>>
                                  ELSE <<>>

\* a stored function was executed by unlock(), a second unlock() found none
\* stored, and the lock() after it executed its function at once
C29_Witness ==
    /\ Len(calls) = 4
    /\ calls[1].op = "lock"
    /\ calls[2].op = "unlock"
    /\ calls[3].op = "unlock"
    /\ calls[4].op = "lock"
    /\ executed = <<1, 2>>
    /\ ~waitForConsumerLock.locked

\* the state in which the stream has been created and startStreaming begins
InitStream ==
    /\ waitForConsumerLock = NewLock
    /\ executed = <<>>
    /\ calls = <<>>
    /\ producer = "ready"
    /\ enqueued = <<>>
    /\ EngineIdle
    /\ text = <<>>
    /\ parsed = NotParsed
    /\ query = <<>>
    /\ resolved = NotResolved
    /\ machineEntity = NoEntity
    /\ lastCall = NoCall
    /\ FormatIdle
    /\ ShellIdle

\* the pull signal of the stream, lines 72-74 and 124-127
Pull ==
    /\ producer # "idle"
    /\ Len(calls) < MaxCalls
    /\ LET after == unlock(waitForConsumerLock)
       IN /\ waitForConsumerLock' = after.lock
          /\ executed' = executed \o after.ran
          /\ calls' = Append(calls, [op |-> "unlock", fn |-> Undefined,
                                     before |-> waitForConsumerLock, ran |-> after.ran])
    /\ UNCHANGED <<producer, enqueued, engineVars, parserVars, registryVars,
                   accessorVars, formatVars, shellVars>>

\* write(value, true) up to its await, lines 135-137 and 113-117: the resolve
\* of a new promise is passed to lock()
WriteAndWait ==
    /\ producer = "ready"
    /\ Len(enqueued) < MaxWrites
    /\ Len(calls) < MaxCalls
    /\ LET resolve == Cardinality(LockCalls) + 1
           after == lock(waitForConsumerLock, resolve)
       IN /\ waitForConsumerLock' = after.lock
          /\ executed' = executed \o after.ran
          /\ calls' = Append(calls, [op |-> "lock", fn |-> resolve,
                                     before |-> waitForConsumerLock, ran |-> after.ran])
    /\ producer' = "waiting"
    /\ UNCHANGED <<enqueued, engineVars, parserVars, registryVars, accessorVars,
                   formatVars, shellVars>>

\* the rest of write(value, true), line 139, once the promise is resolved
EnqueueAfterWait ==
    /\ producer = "waiting"
    /\ Executions(Cardinality(LockCalls)) >= 1
    /\ enqueued' = Append(enqueued, [value |-> Len(enqueued) + 1, waited |-> TRUE])
    /\ producer' = "ready"
    /\ UNCHANGED <<waitForConsumerLock, executed, calls, engineVars, parserVars,
                   registryVars, accessorVars, formatVars, shellVars>>

\* write(value, false), lines 135 and 139
WriteWithoutWaiting ==
    /\ producer = "ready"
    /\ Len(enqueued) < MaxWrites
    /\ enqueued' = Append(enqueued, [value |-> Len(enqueued) + 1, waited |-> FALSE])
    /\ UNCHANGED <<producer, waitForConsumerLock, executed, calls, engineVars,
                   parserVars, registryVars, accessorVars, formatVars, shellVars>>

NextStream ==
    \/ Pull
    \/ WriteAndWait
    \/ EnqueueAfterWait
    \/ WriteWithoutWaiting

SpecStream == InitStream /\ [][NextStream]_vars

\* C28: a waiting write enqueues its value only after a pull signal, and a
\* pull signal releases at most one waiting write: the waiting writes
\* released are never more than the pull signals received.
C28_PullReleasesOneWaitingWrite ==
    /\ \A n \in 1..Len(enqueued) : enqueued[n].waited => UnlockCalls # {}
    /\ Len(executed) <= Cardinality(UnlockCalls)

-----------------------------------------------------------------------------
(* formatClockSpeed.  The number value * 100 is the double nearest to the  *)
(* decimal product; toFixed rounds that double, so where the decimal lies   *)
(* midway between two texts either of them can come out.                    *)

MaxMantissa == 14

\* the decimal exponents of the numbers formatted
FormatExponents == -4..1

DigitChar(d) == CHOOSE c \in Digits : DigitValue[c] = d

\* the decimal digits of a natural number
RECURSIVE DigitsOf(_)
DigitsOf(n) ==
    IF n < 10 THEN <<DigitChar(n)>>
    ELSE Append(DigitsOf(n \div 10), DigitChar(n % 10))

Zeros(k) == [i \in 1..k |-> "0"]

RECURSIVE Pow10(_)
Pow10(k) == IF k = 0 THEN 1 ELSE 10 * Pow10(k - 1)

Abs(n) == IF n < 0 THEN -n ELSE n

\* value * 100 of line 255
Times100(v) == IF v.kind = "finite" THEN Num(v.m * 100, v.e) ELSE v

\* Number::toString of a finite x >= 10^21: the digits of x, a point after
\* the first if there are more, and the exponent of ten
ToStringExponential(x) ==
    LET digits == DigitsOf(Abs(x.m))
        exponent == Len(digits) - 1 + x.e
    IN <<digits[1]>>
       \o (IF Len(digits) > 1 THEN <<".">> \o SubSeq(digits, 2, Len(digits)) ELSE <<>>)
       \o <<"e", "+">> \o DigitsOf(exponent)

\* x >= 10^21, for a finite x >= 0
AtLeast1e21(x) == x.m # 0 /\ Len(DigitsOf(Abs(x.m))) + x.e >= 22

\* Number.prototype.toFixed(fractionDigits) of the double x; roundsUp tells
\* which way x rounds when its decimal lies midway between two texts
toFixed(x, fractionDigits, roundsUp) ==
    IF x.kind = "NaN" THEN <<"N", "a", "N">>
    ELSE IF x.kind = "Infinity" THEN <<"Infinity">>
    ELSE IF x.kind = "-Infinity" THEN <<"-", "Infinity">>
    ELSE
      LET sign == IF x.m < 0 THEN <<"-">> ELSE <<>>
          shift == x.e + fractionDigits
          divisor == Pow10(-shift)
          quotient == Abs(x.m) \div divisor
          remainder == Abs(x.m) % divisor
          n == IF 2 * remainder > divisor \/ (2 * remainder = divisor /\ roundsUp)
               THEN quotient + 1
               ELSE quotient
          digits == IF shift >= 0
                    THEN (IF x.m = 0 THEN <<"0">>
                          ELSE DigitsOf(Abs(x.m)) \o Zeros(shift))
                    ELSE DigitsOf(n)
          padded == IF Len(digits) <= fractionDigits
                    THEN Zeros(fractionDigits + 1 - Len(digits)) \o digits
                    ELSE digits
          k == Len(padded)
      IN IF AtLeast1e21(x) THEN sign \o ToStringExponential(x)
         ELSE sign \o (IF fractionDigits = 0 THEN padded
                       ELSE SubSeq(padded, 1, k - fractionDigits) \o <<".">>
                            \o SubSeq(padded, k - fractionDigits + 1, k))

\* lines 254-256
formatClockSpeed(value, roundsUp) == toFixed(Times100(value), 1, roundsUp) \o <<"%">>

\* the numbers handed to formatClockSpeed: the multipliers of the tests,
\* decimals of a few digits of either sign, a multiplier of twenty digits and
\* one of nineteen, and what is no finite number
FormatValues ==
    { Num(sign * m, e) : sign \in {1, -1}, m \in 0..MaxMantissa, e \in FormatExponents }
    \cup { Num(1, 19), Num(5, 18), NaN, Infinity }

InitFormat ==
    /\ clockSpeedValue \in FormatValues
    /\ formatted = NotFormatted
    /\ EngineIdle
    /\ text = <<>>
    /\ parsed = NotParsed
    /\ query = <<>>
    /\ resolved = NotResolved
    /\ machineEntity = NoEntity
    /\ lastCall = NoCall
    /\ StreamIdle
    /\ ShellIdle

\* the call formatClockSpeed(clockSpeedValue)
FormatClockSpeed ==
    /\ formatted = NotFormatted
    /\ \E roundsUp \in BOOLEAN :
          formatted' = formatClockSpeed(clockSpeedValue, roundsUp)
    /\ UNCHANGED <<clockSpeedValue, engineVars, parserVars, registryVars,
                   accessorVars, streamVars, shellVars>>

NextFormat == FormatClockSpeed

SpecFormat == InitFormat /\ [][NextFormat]_vars

\* the text t is digits, a point and one digit, with a minus sign before
\* them if negative is set
OneDecimalText(t, negative) ==
    LET body == IF negative THEN SubSeq(t, 2, Len(t)) ELSE t
    IN /\ negative => (t # <<>> /\ t[1] = "-")
       /\ Len(body) >= 3
       /\ body[Len(body) - 1] = "."
       /\ \A i \in 1..Len(body) : i # Len(body) - 1 => body[i] \in Digits

\* the digits of t, point and sign left out
TenthsDigits(t) == SelectSeq(t, LAMBDA c : c \in Digits)

\* the digits are those of a whole number of tenths nearest to |m| * 10^e
NearestTenths(digits, m, e) ==
    IF m = 0 THEN digits = <<"0", "0">>
    ELSE IF e + 1 >= 0
    THEN \E zeros \in 0..1 : Zeros(zeros) \o DigitsOf(Abs(m)) \o Zeros(e + 1) = digits
    ELSE \E n \in { Abs(m) \div Pow10(-(e + 1)), Abs(m) \div Pow10(-(e + 1)) + 1 } :
            /\ 2 * Abs(n * Pow10(-(e + 1)) - Abs(m)) <= Pow10(-(e + 1))
            /\ \E zeros \in 0..1 : Zeros(zeros) \o DigitsOf(n) = digits
            /\ Len(digits) >= 2
            /\ (Len(digits) > 2 => digits[1] # "0")

\* C24: formatClockSpeed(m) returns the text of m times 100 with exactly one
\* decimal place, that is a whole number of tenths nearest to it, followed by
\* "%"; for 1.0, 2.5, 0.5 and 10.0 these are 100.0%, 250.0%, 50.0% and
\* 1000.0%.
C24_PercentWithOneDecimal ==
    formatted # NotFormatted =>
        LET shown == SubSeq(formatted, 1, Len(formatted) - 1)
            x == Times100(clockSpeedValue)
        IN /\ formatted[Len(formatted)] = "%"
           /\ x.kind = "finite"
           /\ OneDecimalText(shown, x.m < 0)
           /\ NearestTenths(TenthsDigits(shown), x.m, x.e)
           /\ clockSpeedValue = Num(1, 0) => formatted = <<"1", "0", "0", ".", "0", "%">>
           /\ clockSpeedValue = Num(25, -1) => formatted = <<"2", "5", "0", ".", "0", "%">>
           /\ clockSpeedValue = Num(5, -1) => formatted = <<"5", "0", ".", "0", "%">>
           /\ clockSpeedValue = Num(10, 0) => formatted = <<"1", "0", "0", "0", ".", "0", "%">>

-----------------------------------------------------------------------------
(* main, writeBlueprintFiles and the codec behind them.  A file is a       *)
(* sequence of blocks: the main file a header block and the body chunks,    *)
(* the config file one config block.  What the codec does inside a block    *)
(* is not part of the code at hand: the model stores a float property as    *)
(* the 32-bit float nearest to its value, shown to eight digits, and every  *)
(* other value as it is, one entity to a chunk.                             *)

HeaderBlock == [block |-> "header", objects |-> <<>>]
ConfigBlock == [block |-> "config", objects |-> <<>>]
ChunkBlock(body) == [block |-> "chunk", objects |-> body]

File(blocks) == [kind |-> "file", blocks |-> blocks]
\* what a writeFileSync that failed after it created the file leaves
PartialFile == [kind |-> "partial", blocks |-> <<>>]

RECURSIVE Pow5(_)
Pow5(k) == IF k = 0 THEN 1 ELSE 5 * Pow5(k - 1)

\* the decimal is a binary fraction of few bits, so a 32-bit float holds it
IsFloat32(v) == v.kind # "finite" \/ v.e >= 0 \/ v.m % Pow5(-v.e) = 0

\* the 32-bit float nearest to v, to eight digits
Float32(v, roundsUp) ==
    IF IsFloat32(v) THEN v
    ELSE LET scale == 8 - Len(DigitsOf(Abs(v.m)))
         IN Num(v.m * Pow10(scale) + (IF roundsUp THEN 1 ELSE -1), v.e - scale)

SerializeProperty(prop, roundsUp) ==
    IF prop.type = "FloatProperty"
    THEN [prop EXCEPT !.value = Float32(prop.value, roundsUp)]
    ELSE prop

\* BlueprintWriter.SerializeObjects
SerializeObjects(body, roundsUp) ==
    [i \in 1..Len(body) |->
        [body[i] EXCEPT !.properties =
            [name \in DOMAIN body[i].properties |->
                SerializeProperty(body[i].properties[name], roundsUp)]]]

\* generateChunks
GenerateChunks(body) == [i \in 1..Len(body) |-> ChunkBlock(<<body[i]>>)]

\* Parser.WriteBlueprintFiles with the callbacks of writeBlueprintFiles: the
\* header handed to the first, the chunks to the second, the config returned
WriteBlueprintFiles(body, roundsUp) ==
    [mainFileHeader |-> <<HeaderBlock>>,
     mainFileBodyChunks |-> GenerateChunks(SerializeObjects(body, roundsUp)),
     configFileBinary |-> <<ConfigBlock>>]

RECURSIVE ParseObjects(_)
\* BlueprintReader.ParseObjects on the inflated chunks
ParseObjects(chunks) ==
    IF chunks = <<>> THEN <<>>
    ELSE Head(chunks).objects \o ParseObjects(Tail(chunks))

DecodeError == [status |-> "thrown", objects |-> <<>>]

\* Parser.ParseBlueprintFiles: the config is read, then the header, then the
\* chunks are inflated and their objects parsed
ParseBlueprintFiles(blueprintFile, blueprintConfigFile) ==
    IF blueprintConfigFile # File(<<ConfigBlock>>) THEN DecodeError
    ELSE IF \/ blueprintFile.kind # "file"
            \/ blueprintFile.blocks = <<>>
            \/ Head(blueprintFile.blocks) # HeaderBlock
            \/ \E k \in 2..Len(blueprintFile.blocks) :
                  blueprintFile.blocks[k].block # "chunk"
    THEN DecodeError
    ELSE [status |-> "returned", objects |-> ParseObjects(Tail(blueprintFile.blocks))]

\* the variables of adjustBlueprintClockSpeeds that main hands nothing to
\* before the call
engineLocals == <<machines, adjustments, objIdx, specIdx, machineIdx, matchedCount,
                  targetTypePath, thrown>>

\* what main neither reads nor writes
notOfMain == <<registryVars, accessorVars, streamVars, formatVars>>

\* main has its arguments and its paths, lines 35-55
InitPipeline ==
    /\ text \in PipelineTexts
    /\ inputFiles \in SUBSET FileNames
    /\ parsed = NotParsed
    /\ objects = <<>>
    /\ parsedObjects = <<>>
    /\ specs = <<>>
    /\ pc = "check"
    /\ machines = <<>>
    /\ adjustments = <<>>
    /\ objIdx = 1
    /\ specIdx = 1
    /\ machineIdx = 1
    /\ matchedCount = 0
    /\ targetTypePath = NullValue
    /\ thrown = NoError
    /\ query = <<>>
    /\ resolved = NotResolved
    /\ machineEntity = NoEntity
    /\ lastCall = NoCall
    /\ StreamIdle
    /\ FormatIdle
    /\ inputsRead = FALSE
    /\ exitCode = 0
    /\ failure = "none"
    /\ serialized = NotSerialized
    /\ outputFiles = [f \in FileNames |-> NoFile]
    /\ reread = NotReread

\* lines 58-65: both input files must exist
CheckInputs ==
    /\ pc = "check"
    /\ IF inputFiles = FileNames
       THEN /\ pc' = "parse"
            /\ UNCHANGED <<exitCode, failure>>
       ELSE /\ pc' = "exit"
            /\ exitCode' = 1
            /\ failure' = "missing input"
    /\ UNCHANGED <<objects, parsedObjects, specs, engineLocals, parserVars, notOfMain,
                   inputFiles, inputsRead, serialized, outputFiles, reread>>

\* ParseSpecs that reads and decodes the blueprint before it parses the text
ParseSpecsAfterDecoding ==
    /\ pc = "parse"
    /\ \/ /\ ~inputsRead
          /\ inputsRead' = TRUE
          /\ objects' \in PipelineBlueprints
          /\ parsedObjects' = objects'
          /\ UNCHANGED <<pc, parsed, specs, exitCode, failure>>
       \/ /\ inputsRead
          /\ parsed' = parseClockSpeedSpec(text)
          /\ IF parsed'.status = "returned"
             THEN /\ specs' = parsed'.specs
                  /\ pc' = "inventory"
                  /\ UNCHANGED <<exitCode, failure>>
             ELSE /\ pc' = "exit"
                  /\ exitCode' = 1
                  /\ failure' = "format"
                  /\ UNCHANGED specs
          /\ UNCHANGED <<objects, parsedObjects, inputsRead>>
    /\ UNCHANGED <<text, engineLocals, notOfMain, inputFiles, serialized,
                   outputFiles, reread>>

\* lines 67-74: the text is parsed, or the process exits on the parser's error
ParseSpecs ==
    /\ pc = "parse"
    /\ parsed' = parseClockSpeedSpec(text)
    /\ IF parsed'.status = "returned"
       THEN /\ specs' = parsed'.specs
            /\ pc' = "read"
            /\ UNCHANGED <<exitCode, failure>>
       ELSE /\ pc' = "exit"
            /\ exitCode' = 1
            /\ failure' = "format"
            /\ UNCHANGED specs
    /\ UNCHANGED <<text, objects, parsedObjects, engineLocals, notOfMain, inputFiles,
                   inputsRead, serialized, outputFiles, reread>>

\* lines 83-84: the input files are read
ReadInputs ==
    /\ pc = "read"
    /\ inputsRead' = TRUE
    /\ pc' = "decode"
    /\ UNCHANGED <<objects, parsedObjects, specs, engineLocals, parserVars, notOfMain,
                   inputFiles, exitCode, failure, serialized, outputFiles, reread>>

\* line 91, and line 180 of adjustBlueprintClockSpeeds: the codec decodes the
\* files, or throws and main exits, lines 92-95
DecodeBlueprint ==
    /\ pc = "decode"
    /\ \/ /\ objects' \in PipelineBlueprints
          /\ parsedObjects' = objects'
          /\ pc' = "inventory"
          /\ UNCHANGED <<exitCode, failure>>
       \/ /\ pc' = "exit"
          /\ exitCode' = 1
          /\ failure' = "codec"
          /\ UNCHANGED <<objects, parsedObjects>>
    /\ UNCHANGED <<specs, engineLocals, parserVars, notOfMain, inputFiles, inputsRead,
                   serialized, outputFiles, reread>>

\* lines 92-95: adjustBlueprintClockSpeeds threw at a spec
AdjustThrew ==
    /\ pc = "thrown"
    /\ pc' = "exit"
    /\ exitCode' = 1
    /\ failure' = "resolution"
    /\ UNCHANGED <<objects, parsedObjects, specs, engineLocals, parserVars, notOfMain,
                   inputFiles, inputsRead, serialized, outputFiles, reread>>

\* lines 112-125: without a spec that matched a machine the process exits
Report ==
    /\ pc = "returned"
    /\ LET anyMatched == \E k \in 1..Len(adjustments) : adjustments[k].matchedCount # 0
       IN IF anyMatched
          THEN /\ pc' = "serialize"
               /\ UNCHANGED <<exitCode, failure>>
          ELSE /\ pc' = "exit"
               /\ exitCode' = 1
               /\ failure' = "no match"
    /\ UNCHANGED <<objects, parsedObjects, specs, engineLocals, parserVars, notOfMain,
                   inputFiles, inputsRead, serialized, outputFiles, reread>>

\* writeBlueprintFiles, lines 238-245: the codec encodes the blueprint, or
\* throws and main exits, lines 130-133
SerializeBlueprint ==
    /\ pc = "serialize"
    /\ \/ /\ \E roundsUp \in BOOLEAN :
                serialized' = WriteBlueprintFiles(objects, roundsUp)
          /\ pc' = "writeSbp"
          /\ UNCHANGED <<exitCode, failure>>
       \/ /\ pc' = "exit"
          /\ exitCode' = 1
          /\ failure' = "codec"
          /\ UNCHANGED serialized
    /\ UNCHANGED <<objects, parsedObjects, specs, engineLocals, parserVars, notOfMain,
                   inputFiles, inputsRead, outputFiles, reread>>

\* WriteSbp that writes the body chunks without the header
WriteSbpWithoutHeader ==
    /\ pc = "writeSbp"
    /\ \/ /\ outputFiles' = [outputFiles EXCEPT
                !["sbp"] = File(serialized.mainFileBodyChunks)]
          /\ pc' = "writeSbpcfg"
          /\ UNCHANGED <<exitCode, failure>>
       \/ /\ \E left \in {NoFile, PartialFile} :
                outputFiles' = [outputFiles EXCEPT !["sbp"] = left]
          /\ pc' = "exit"
          /\ exitCode' = 1
          /\ failure' = "write"
    /\ UNCHANGED <<objects, parsedObjects, specs, engineLocals, parserVars, notOfMain,
                   inputFiles, inputsRead, serialized, reread>>

\* writeBlueprintFiles, line 247: the header and the chunks are written to the
\* .sbp path; a write that fails may have created the file, and main exits,
\* lines 130-133
WriteSbp ==
    /\ pc = "writeSbp"
    /\ \/ /\ outputFiles' = [outputFiles EXCEPT
                !["sbp"] = File(serialized.mainFileHeader \o serialized.mainFileBodyChunks)]
          /\ pc' = "writeSbpcfg"
          /\ UNCHANGED <<exitCode, failure>>
       \/ /\ \E left \in {NoFile, PartialFile} :
                outputFiles' = [outputFiles EXCEPT !["sbp"] = left]
          /\ pc' = "exit"
          /\ exitCode' = 1
          /\ failure' = "write"
    /\ UNCHANGED <<objects, parsedObjects, specs, engineLocals, parserVars, notOfMain,
                   inputFiles, inputsRead, serialized, reread>>

\* writeBlueprintFiles, line 248: the config is written to the .sbpcfg path,
\* and main returns, lines 135-138, or exits on the error, lines 130-133
WriteSbpcfg ==
    /\ pc = "writeSbpcfg"
    /\ \/ /\ outputFiles' = [outputFiles EXCEPT
                !["sbpcfg"] = File(serialized.configFileBinary)]
          /\ pc' = "exit"
          /\ UNCHANGED <<exitCode, failure>>
       \/ /\ \E left \in {NoFile, PartialFile} :
                outputFiles' = [outputFiles EXCEPT !["sbpcfg"] = left]
          /\ pc' = "exit"
          /\ exitCode' = 1
          /\ failure' = "write"
    /\ UNCHANGED <<objects, parsedObjects, specs, engineLocals, parserVars, notOfMain,
                   inputFiles, inputsRead, serialized, reread>>

\* the output files of a run that has ended are decoded again, as
\* withRoundTrip does
RereadOutput ==
    /\ pc = "exit"
    /\ reread = NotReread
    /\ \A f \in FileNames : outputFiles[f] # NoFile
    /\ reread' = ParseBlueprintFiles(outputFiles["sbp"], outputFiles["sbpcfg"])
    /\ UNCHANGED <<engineVars, parserVars, notOfMain, inputFiles, inputsRead, exitCode,
                   failure, serialized, outputFiles>>

NextPipeline ==
    \/ CheckInputs
    \/ ParseSpecs
    \/ ReadInputs
    \/ DecodeBlueprint
    \/ Next
    \/ AdjustThrew
    \/ Report
    \/ SerializeBlueprint
    \/ WriteSbp
    \/ WriteSbpcfg
    \/ RereadOutput

SpecPipeline == InitPipeline /\ [][NextPipeline]_vars

\* C21: a run of main that fails, whichever the failure, ends with a
\* non-zero exit code and with neither the .sbp nor the .sbpcfg output
\* written.
C21_FailureLeavesNoOutput ==
    (pc = "exit" /\ failure # "none") =>
        /\ exitCode # 0
        /\ \A f \in FileNames : outputFiles[f] = NoFile

\* C22: the batch text is parsed before the input files are read and the
\* blueprint is decoded: as long as it is not parsed, and for good when its
\* parsing threw, nothing is read, no entity exists to be read or written, no
\* inventory entry is made, and the run that ends in a format error exits
\* with a non-zero code.
C22_ParsingPrecedesDecoding ==
    /\ parsed = NotParsed =>
          /\ pc \in {"check", "parse", "exit"}
          /\ pc = "exit" => failure = "missing input"
    /\ parsed.status # "returned" =>
          /\ ~inputsRead
          /\ objects = <<>>
          /\ parsedObjects = <<>>
          /\ machines = <<>>
          /\ adjustments = <<>>
    /\ parsed.status = "thrown" =>
          /\ pc = "exit"
          /\ failure = "format"
          /\ exitCode # 0
    /\ failure = "format" => parsed.status = "thrown"

\* a run ended in the format error of a pair whose multiplier is 0
C22_Witness ==
    /\ pc = "exit"
    /\ failure = "format"
    /\ parsed.status = "thrown"
    /\ inputFiles = FileNames
    /\ \E n \in 1..NumPairs : MultiplierText(PairOf(n)) = <<"0">>

\* the numbers a and b differ by no more than a millionth of b
WithinTolerance(a, b) ==
    /\ a.kind = "finite"
    /\ b.kind = "finite"
    /\ LET e == IF a.e < b.e THEN a.e ELSE b.e
           scaledA == a.m * Pow10(a.e - e)
           scaledB == b.m * Pow10(b.e - e)
       IN Abs(scaledA - scaledB) * 1000000 <= Abs(scaledB)

\* the entities a spec has written
Targeted == { i \in 1..Len(objects) : objects[i] # parsedObjects[i] }

=============================================================================
